---- MODULE Spec2Model ----
(***************************************************************************)
(* Render-profiling engine of the Limelight SDK (RenderInterceptor).       *)
(* The profiler hooks the host framework's commit notifications, walks the *)
(* committed fiber tree in two passes, accumulates per-component Profiles  *)
(* and emits delta snapshots on a timer.                                   *)
(***************************************************************************)
EXTENDS Integers, Sequences, FiniteSets, TLC

\* ------------------------------------------------------------------------
\* Bounds of the model
\* ------------------------------------------------------------------------
MaxOps == 3
MaxTimeSteps == 1

\* the velocity specification: renders at the instant of setup, and clock steps
MaxBurst == 50

MaxVelSteps == 6

\* the lifecycle specification: calls and notifications
MaxLifeOps == 5

MaxConfigOps == 2

MaxRequests == 2

\* the values generateRequestId returns
MaxRequestIds == 2

MaxXhrRequests == 3

MaxParentOps == 3

MaxSends == 103

MaxPropOps == 5

MaxPairNotifications == 3

MaxBindDepth == 2

MaxScheduled == 6

MaxReconnectSends == 2

MaxConsoleCalls == 2

MaxSendFaults == 2

MaxEarlySends == 3

MaxCommandOps == 3

\* ------------------------------------------------------------------------
\* Program constants
\* ------------------------------------------------------------------------
HOT_VELOCITY == 5
HIGH_RENDER_COUNT == 50
VELOCITY_WINDOW_MS == 2000
SNAPSHOT_INTERVAL_MS == 1000
MIN_DELTA_TO_EMIT == 1
MAX_PROP_KEYS_TO_TRACK == 20
MAX_PROP_CHANGES_PER_SNAPSHOT == 10
TOP_PROPS_TO_REPORT == 5
MinEffectiveWindowMs == 100
MaxDiffChanges == 10

\* FiberTag / FiberFlags (React internal constants)
FunctionComponent == 0
ClassComponent == 1
HostComponent == 5
ForwardRef == 11
MemoComponent == 14
SimpleMemoComponent == 15
PerformedWork == 1
NoFlags == 0
Placement == 2

\* RenderCauseType
CauseTypes ==
  {"state_change", "props_change", "context_change", "parent_render",
   "force_update", "unknown"}

\* ------------------------------------------------------------------------
\* Generic helpers
\* ------------------------------------------------------------------------
\* F applied to the value of v, with v evaluated once
Force(v, F(_)) == CHOOSE r \in {F(x) : x \in {v}} : TRUE

Max(a, b) == IF a >= b THEN a ELSE b

Min(a, b) == IF a <= b THEN a ELSE b

RECURSIVE Gcd(_, _)
Gcd(a, b) == IF b = 0 THEN a ELSE Gcd(b, a % b)

RECURSIVE LcmUpTo(_)
LcmUpTo(n) == IF n <= 1 THEN 1 ELSE (LcmUpTo(n - 1) * n) \div Gcd(LcmUpTo(n - 1), n)

RECURSIVE SumOver(_, _)
SumOver(f, S) ==
  IF S = {} THEN 0
  ELSE LET x == CHOOSE y \in S : TRUE IN f[x] + SumOver(f, S \ {x})

RECURSIVE SeqSum(_)
SeqSum(s) == IF s = <<>> THEN 0 ELSE Head(s) + SeqSum(Tail(s))

\* i & PerformedWork for the flag values used (bit 0 of a non-negative int)
BitAnd1(flags) == flags % 2

\* ------------------------------------------------------------------------
\* JavaScript values, one level deep (what isShallowEqual can tell apart)
\*   t     : typeof
\*   kind  : "plain" | "array" | "null" for t = "object", "" otherwise
\*   ref   : object identity (0 for primitives and null)
\*   v     : primitive payload
\*   items : own enumerable keys with their values, <<key, value>> in key order
\* ------------------------------------------------------------------------
Undefined == [t |-> "undefined", kind |-> "", ref |-> 0, v |-> 0, items |-> <<>>]
Null == [t |-> "object", kind |-> "null", ref |-> 0, v |-> 0, items |-> <<>>]
Num(n) == [t |-> "number", kind |-> "", ref |-> 0, v |-> n, items |-> <<>>]
Fn(r) == [t |-> "function", kind |-> "", ref |-> r, v |-> 0, items |-> <<>>]
Obj(r, kv) == [t |-> "object", kind |-> "plain", ref |-> r, v |-> 0, items |-> kv]
Arr(r, kv) == [t |-> "object", kind |-> "array", ref |-> r, v |-> 0, items |-> kv]

\* a === b
StrictEq(a, b) ==
  /\ a.t = b.t
  /\ IF a.t \in {"object", "function"}
     THEN a.kind = b.kind /\ a.ref = b.ref
     ELSE a.v = b.v

Keys(kv) == [i \in 1..Len(kv) |-> kv[i][1]]

HasKey(kv, k) == \E i \in 1..Len(kv) : kv[i][1] = k

\* o[k]: the value stored under k, undefined when k is not an own key
Get(kv, k) ==
  IF HasKey(kv, k)
  THEN kv[CHOOSE i \in 1..Len(kv) : kv[i][1] = k][2]
  ELSE Undefined

IsShallowEqual(a, b) ==
  IF StrictEq(a, b) THEN TRUE
  ELSE IF a.t # b.t THEN FALSE
  ELSE IF a.kind = "null" \/ b.kind = "null" THEN FALSE
  ELSE IF a.t = "function" /\ b.t = "function" THEN TRUE
  ELSE IF a.kind = "array" /\ b.kind = "array"
    THEN /\ Len(a.items) = Len(b.items)
         /\ \A i \in 1..Len(a.items) : StrictEq(a.items[i][2], b.items[i][2])
  ELSE IF a.t = "object" /\ b.t = "object"
    THEN /\ Len(a.items) = Len(b.items)
         /\ \A i \in 1..Len(a.items) :
              StrictEq(a.items[i][2], Get(b.items, a.items[i][1]))
  ELSE StrictEq(a, b)

\* ------------------------------------------------------------------------
\* Property sets (fiber.memoizedProps): ref = 0 is null
\* ------------------------------------------------------------------------
NullProps == [ref |-> 0, items |-> <<>>]
Props(r, kv) == [ref |-> r, items |-> kv]

SkipKeys == {"children", "key", "ref"}

RECURSIVE AppendNewKeys(_, _)
AppendNewKeys(acc, ks) ==
  IF ks = <<>> THEN acc
  ELSE AppendNewKeys(
         IF \E i \in 1..Len(acc) : acc[i] = Head(ks) THEN acc ELSE Append(acc, Head(ks)),
         Tail(ks))

\* new Set([...Object.keys(prevProps), ...Object.keys(nextProps)]) in insertion order
AllKeys(prevProps, nextProps) ==
  AppendNewKeys(AppendNewKeys(<<>>, Keys(prevProps.items)), Keys(nextProps.items))

RECURSIVE DiffLoop(_, _, _, _)
DiffLoop(ks, prevProps, nextProps, changes) ==
  IF ks = <<>> THEN changes
  ELSE LET key == Head(ks)
           prevValue == Get(prevProps.items, key)
           nextValue == Get(nextProps.items, key)
       IN IF key \in SkipKeys THEN DiffLoop(Tail(ks), prevProps, nextProps, changes)
          ELSE IF StrictEq(prevValue, nextValue)
            THEN DiffLoop(Tail(ks), prevProps, nextProps, changes)
          ELSE LET pushed == Append(changes,
                               [key |-> key,
                                referenceOnly |-> IsShallowEqual(prevValue, nextValue)])
               IN IF Len(pushed) >= MaxDiffChanges THEN pushed
                  ELSE DiffLoop(Tail(ks), prevProps, nextProps, pushed)

DiffProps(prevProps, nextProps) ==
  IF prevProps.ref = 0 \/ nextProps.ref = 0 THEN <<>>
  ELSE DiffLoop(AllKeys(prevProps, nextProps), prevProps, nextProps, <<>>)

\* ------------------------------------------------------------------------
\* Fibers.  A fiber object is <<unit, ver>>: version ver of logical unit unit.
\* The host allocates a new fiber per update whose alternate is the previous
\* version; version 0 has no alternate.
\* ------------------------------------------------------------------------
Units == 1..4

Versions == 0..2

Fibers == Units \X Versions

NoFiber == <<0, 0>>

Alternate(f) == IF f[2] = 0 THEN NoFiber ELSE <<f[1], f[2] - 1>>

FiberOf(node) == <<node.unit, node.ver>>

IsUserComponent(node) ==
  \/ node.tag = FunctionComponent
  \/ node.tag = ClassComponent
  \/ node.tag = ForwardRef
  \/ node.tag = MemoComponent
  \/ node.tag = SimpleMemoComponent

DidFiberRender(node) == BitAnd1(node.flags) # 0

GetComponentType(node) ==
  CASE node.tag = FunctionComponent -> "function"
    [] node.tag = ClassComponent -> "class"
    [] node.tag = ForwardRef -> "forwardRef"
    [] node.tag \in {MemoComponent, SimpleMemoComponent} -> "memo"
    [] OTHER -> "unknown"

\* ------------------------------------------------------------------------
\* Profiles
\* ------------------------------------------------------------------------
CreateEmptyCauseBreakdown == [c \in CauseTypes |-> 0]

CreateEmptyPropChangeStats == [changeCount |-> <<>>, referenceOnlyCount |-> <<>>]

NoReason == [kind |-> "none", value |-> 0]

BreakdownSum(b) == SumOver(b, CauseTypes)

\* Map.get(key) ?? 0 on a map kept as <<key, count>> pairs in insertion order
MapGet(m, k) ==
  IF \E i \in 1..Len(m) : m[i][1] = k
  THEN m[CHOOSE i \in 1..Len(m) : m[i][1] = k][2]
  ELSE 0

MapHas(m, k) == \E i \in 1..Len(m) : m[i][1] = k

\* Map.set(key, value): an existing key keeps its place, a new key goes last
MapSet(m, k, v) ==
  IF MapHas(m, k)
  THEN [i \in 1..Len(m) |-> IF m[i][1] = k THEN <<k, v>> ELSE m[i]]
  ELSE Append(m, <<k, v>>)

\* profiles is a Map componentId -> profile, kept in insertion order
ProfileIndex(ps, cid) ==
  IF \E i \in 1..Len(ps) : ps[i].componentId = cid
  THEN CHOOSE i \in 1..Len(ps) : ps[i].componentId = cid
  ELSE 0

RemoveAt(s, i) == [j \in 1..(Len(s) - 1) |-> IF j < i THEN s[j] ELSE s[j + 1]]

\* Cost is kept as an exact fraction with denominator CostDen
CostDen == LcmUpTo(3)

\* ------------------------------------------------------------------------
\* 4.4 Cause inference
\* ------------------------------------------------------------------------
HasAlternate(node) == node.ver > 0

MkCause(type, confidence, triggerId, hasPropChanges, propChanges) ==
  [type |-> type, confidence |-> confidence, triggerId |-> triggerId,
   hasPropChanges |-> hasPropChanges, propChanges |-> propChanges]

\* a cascade that looks at the state before the parent
InferRenderCauseStateFirst(node, parentComponentId, commitSet) ==
  IF ~HasAlternate(node) THEN MkCause("unknown", "high", 0, FALSE, <<>>)
  ELSE IF node.stateChanged THEN MkCause("state_change", "medium", 0, FALSE, <<>>)
  ELSE IF parentComponentId # 0 /\ parentComponentId \in commitSet
    THEN IF node.prevProps.ref # node.props.ref
         THEN MkCause("props_change", "medium", parentComponentId, TRUE,
                      DiffProps(node.prevProps, node.props))
         ELSE MkCause("parent_render", "medium", parentComponentId, FALSE, <<>>)
  ELSE IF node.props.ref # node.prevProps.ref
    THEN MkCause("context_change", "low", 0, FALSE, <<>>)
  ELSE MkCause("unknown", "unknown", 0, FALSE, <<>>)

InferRenderCause(node, parentComponentId, commitSet) ==
  IF ~HasAlternate(node) THEN MkCause("unknown", "high", 0, FALSE, <<>>)
  ELSE IF parentComponentId # 0 /\ parentComponentId \in commitSet
    THEN IF node.prevProps.ref # node.props.ref
         THEN MkCause("props_change", "medium", parentComponentId, TRUE,
                      DiffProps(node.prevProps, node.props))
         ELSE MkCause("parent_render", "medium", parentComponentId, FALSE, <<>>)
  ELSE IF node.stateChanged THEN MkCause("state_change", "medium", 0, FALSE, <<>>)
  ELSE IF node.props.ref # node.prevProps.ref
    THEN MkCause("context_change", "low", 0, FALSE, <<>>)
  ELSE MkCause("unknown", "unknown", 0, FALSE, <<>>)

\* inferRenderCause throws when diffProps reads a property set whose access throws
InferThrows(node, parentComponentId, commitSet) ==
  /\ node.fault = "diff"
  /\ HasAlternate(node)
  /\ parentComponentId # 0 /\ parentComponentId \in commitSet
  /\ node.prevProps.ref # node.props.ref

\* ------------------------------------------------------------------------
\* 4.5 Property-change statistics
\* ------------------------------------------------------------------------
\* a fold that tracks every key it is given
RECURSIVE FoldChangesUncapped(_, _)
FoldChangesUncapped(stats, changes) ==
  IF changes = <<>> THEN stats
  ELSE LET change == Head(changes)
           cc == MapSet(stats.changeCount, change.key,
                        MapGet(stats.changeCount, change.key) + 1)
           rc == IF change.referenceOnly
                 THEN MapSet(stats.referenceOnlyCount, change.key,
                             MapGet(stats.referenceOnlyCount, change.key) + 1)
                 ELSE stats.referenceOnlyCount
       IN FoldChangesUncapped([changeCount |-> cc, referenceOnlyCount |-> rc],
                              Tail(changes))

RECURSIVE FoldChanges(_, _)
FoldChanges(stats, changes) ==
  IF changes = <<>> THEN stats
  ELSE LET change == Head(changes)
           capped == /\ Len(stats.changeCount) >= MAX_PROP_KEYS_TO_TRACK
                     /\ ~MapHas(stats.changeCount, change.key)
           cc == MapSet(stats.changeCount, change.key,
                        MapGet(stats.changeCount, change.key) + 1)
           rc == IF change.referenceOnly
                 THEN MapSet(stats.referenceOnlyCount, change.key,
                             MapGet(stats.referenceOnlyCount, change.key) + 1)
                 ELSE stats.referenceOnlyCount
       IN IF capped THEN FoldChanges(stats, Tail(changes))
          ELSE FoldChanges([changeCount |-> cc, referenceOnlyCount |-> rc], Tail(changes))

AccumulatePropChanges(profile, changes) ==
  LET room == MAX_PROP_CHANGES_PER_SNAPSHOT - Len(profile.propChangeDelta)
  IN [profile EXCEPT
        !.propChangeStats = FoldChanges(profile.propChangeStats, changes),
        !.propChangeDelta =
           IF Len(profile.propChangeDelta) < MAX_PROP_CHANGES_PER_SNAPSHOT
           THEN profile.propChangeDelta \o SubSeq(changes, 1, Min(Len(changes), room))
           ELSE profile.propChangeDelta]

\* ------------------------------------------------------------------------
\* 4.6 Velocity and the suspicious flag
\* velocity = count / max(windowAge, 100) * 1000, kept as the fraction num/den
\* ------------------------------------------------------------------------
CalculateVelocity(profile, t) ==
  LET windowAge == t - profile.velocityWindowStart
  IN IF windowAge > VELOCITY_WINDOW_MS THEN [num |-> 0, den |-> 1]
     ELSE [num |-> profile.velocityWindowCount * 1000,
           den |-> Max(windowAge, MinEffectiveWindowMs)]

\* velocity.toFixed(1), in tenths: the tenth nearest the double
\* (velocityWindowCount / effectiveWindowMs) * 1000, the larger one when the
\* double lies midway.  The double is as far from the exact quotient as the two
\* roundings (of the division, then of the product) take it, which decides the
\* digit only when the exact quotient lies midway between two tenths:
\*   fl(count / ms) = (count * 2^bits + errDiv) / (ms * 2^bits)
\*   fl(fl(count / ms) * 1000) - 1000 * count / ms
\*     = 8 * (125 * errDiv + errMul * ms) / (ms * 2^bits)
ToFixed1(vel) ==
  LET count == vel.num \div 1000
      ms == vel.den
      nearest == (20 * vel.num + ms) \div (2 * ms)
      RECURSIVE BitLength(_, _)
      BitLength(i, n) == IF 2 ^ n <= i THEN BitLength(i, n + 1) ELSE n
      RECURSIVE Shift(_)
      Shift(n) == IF count * (2 ^ n) >= ms THEN n ELSE Shift(n + 1)
      RECURSIVE Digits(_, _, _)
      Digits(r, low, n) ==
        IF n = 0 THEN [r |-> r, low |-> low]
        ELSE Digits((2 * r) % ms, (2 * low + (2 * r) \div ms) % 256, n - 1)
  IN IF (20 * vel.num) % ms # 0 \/ ((20 * vel.num) \div ms) % 2 = 0
     THEN nearest
     ELSE LET whole == count \div ms
              length == BitLength(whole, 0)
              shift == IF whole >= 1 THEN 0 ELSE Shift(1)
              bits == IF whole >= 1 THEN 53 - length ELSE 52 + shift
              \* the product by 1000 needs one more binary digit
              carries == IF whole >= 1
                         THEN 125 * count >= 128 * ms * (2 ^ (length - 1))
                         ELSE 125 * count * (2 ^ shift) >= 128 * ms
              q == Digits(count % ms, 0, bits)
              up == 2 * q.r > ms \/ (2 * q.r = ms /\ q.low % 2 = 1)
              mantissa == (q.low + (IF up THEN 1 ELSE 0)) % 256
              errDiv == IF up THEN ms - q.r ELSE 0 - q.r
              drop == IF carries THEN 128 ELSE 64
              rest == (125 * mantissa) % drop
              odd == ((125 * mantissa) \div drop) % 2 = 1
              errMul == IF 2 * rest < drop THEN 0 - rest
                        ELSE IF 2 * rest > drop THEN drop - rest
                        ELSE IF odd THEN rest ELSE 0 - rest
          IN IF 125 * errDiv + errMul * ms < 0 THEN nearest - 1 ELSE nearest

\* a flag that looks at the total count before the velocity
UpdateSuspiciousFlagTotalFirst(profile, t) ==
  LET velocity == CalculateVelocity(profile, t)
  IN IF profile.totalRenders > HIGH_RENDER_COUNT
     THEN [profile EXCEPT !.isSuspicious = TRUE,
             !.suspiciousReason = [kind |-> "total", value |-> profile.totalRenders]]
     ELSE IF velocity.num > HOT_VELOCITY * velocity.den
     THEN [profile EXCEPT !.isSuspicious = TRUE,
             !.suspiciousReason = [kind |-> "velocity", value |-> ToFixed1(velocity)]]
     ELSE [profile EXCEPT !.isSuspicious = FALSE, !.suspiciousReason = NoReason]

UpdateSuspiciousFlag(profile, t) ==
  LET velocity == CalculateVelocity(profile, t)
  IN IF velocity.num > HOT_VELOCITY * velocity.den
     THEN [profile EXCEPT !.isSuspicious = TRUE,
             !.suspiciousReason = [kind |-> "velocity", value |-> ToFixed1(velocity)]]
     ELSE IF profile.totalRenders > HIGH_RENDER_COUNT
     THEN [profile EXCEPT !.isSuspicious = TRUE,
             !.suspiciousReason = [kind |-> "total", value |-> profile.totalRenders]]
     ELSE [profile EXCEPT !.isSuspicious = FALSE, !.suspiciousReason = NoReason]

\* ------------------------------------------------------------------------
\* 4.1 Identity allocator.  fiberToComponentId maps a fiber to its id (0: none);
\* the id c_n is kept as the number n.
\* Returns the updated association, counter and the id.
\* ------------------------------------------------------------------------
GetOrCreateComponentId(f2c, counter, fiber) ==
  IF f2c[fiber] # 0
  THEN [f2c |-> f2c, counter |-> counter, id |-> f2c[fiber]]
  ELSE IF Alternate(fiber) # NoFiber /\ f2c[Alternate(fiber)] # 0
  THEN [f2c |-> [f2c EXCEPT ![fiber] = f2c[Alternate(fiber)]],
        counter |-> counter, id |-> f2c[Alternate(fiber)]]
  ELSE [f2c |-> [f2c EXCEPT ![fiber] = counter + 1],
        counter |-> counter + 1, id |-> counter + 1]

\* ------------------------------------------------------------------------
\* 4.3 Accumulator.  st is the profiler state threaded through one commit:
\*   profiles, f2c, idCounter, ridCounter, commitSet (currentCommitComponents),
\*   nInCommit (componentsInCurrentCommit), log (what pass 2 did, per visited
\*   rendering unit), threw (an exception is propagating to the commit handler)
\* ------------------------------------------------------------------------
NewProfile(rid, componentId, node, depth, t) ==
  [id |-> rid,
   componentId |-> componentId,
   componentName |-> node.unit,
   componentType |-> GetComponentType(node),
   mountedAt |-> t,
   unmountedAt |-> -1,
   totalRenders |-> 0,
   totalRenderCost |-> 0,
   velocityWindowStart |-> t,
   velocityWindowCount |-> 0,
   causeBreakdown |-> CreateEmptyCauseBreakdown,
   causeDeltaBreakdown |-> CreateEmptyCauseBreakdown,
   lastEmittedRenderCount |-> 0,
   lastEmittedRenderCost |-> 0,
   lastEmitTime |-> t,
   parentCounts |-> <<>>,
   primaryParentId |-> 0,
   depth |-> depth,
   isSuspicious |-> FALSE,
   suspiciousReason |-> NoReason,
   propChangeStats |-> CreateEmptyPropChangeStats,
   propChangeDelta |-> <<>>]

\* every unit is charged the whole commit
RenderCostUnnormalised(nInCommit) == CostDen

RenderCost(nInCommit) == IF nInCommit > 0 THEN CostDen \div nInCommit ELSE CostDen

\* a parent attribution in which a parent that reaches the primary's count
\* takes its place
UpdateParentOnTie(profile, parentComponentId) ==
  IF parentComponentId = 0 THEN profile
  ELSE LET count == MapGet(profile.parentCounts, parentComponentId) + 1
           pc == MapSet(profile.parentCounts, parentComponentId, count)
       IN [profile EXCEPT
             !.parentCounts = pc,
             !.primaryParentId =
                IF profile.primaryParentId = 0
                   \/ count >= MapGet(pc, profile.primaryParentId)
                THEN parentComponentId ELSE profile.primaryParentId]

\* accumulateRender's parent attribution
UpdateParent(profile, parentComponentId) ==
  IF parentComponentId = 0 THEN profile
  ELSE LET count == MapGet(profile.parentCounts, parentComponentId) + 1
           pc == MapSet(profile.parentCounts, parentComponentId, count)
       IN [profile EXCEPT
             !.parentCounts = pc,
             !.primaryParentId =
                IF profile.primaryParentId = 0
                   \/ count > MapGet(pc, profile.primaryParentId)
                THEN parentComponentId ELSE profile.primaryParentId]

UpdateVelocityWindow(profile, t) ==
  IF profile.velocityWindowStart < t - VELOCITY_WINDOW_MS
  THEN [profile EXCEPT !.velocityWindowStart = t, !.velocityWindowCount = 1]
  ELSE [profile EXCEPT !.velocityWindowCount = @ + 1]

\* accumulateRender without the cumulative cause counter
ApplyRenderNoBreakdown(profile, cause, renderCost, parentComponentId, depth, t) ==
  LET Counted(p) == [p EXCEPT
                       !.totalRenders = @ + 1,
                       !.totalRenderCost = @ + renderCost,
                       !.causeDeltaBreakdown[cause.type] = @ + 1]
      WithProps(p) == IF cause.type = "props_change" /\ cause.hasPropChanges
                      THEN AccumulatePropChanges(p, cause.propChanges) ELSE p
      WithParent(p) == UpdateParent(p, parentComponentId)
      WithDepth(p) == [p EXCEPT !.depth = depth]
      WithWindow(p) == UpdateVelocityWindow(p, t)
      WithFlag(p) == UpdateSuspiciousFlag(p, t)
  IN Force(Force(Force(Force(Force(Force(profile, Counted), WithProps), WithParent),
                       WithDepth), WithWindow), WithFlag)

\* The body of accumulateRender once the cause is known and the profile exists
ApplyRender(profile, cause, renderCost, parentComponentId, depth, t) ==
  LET Counted(p) == [p EXCEPT
                       !.totalRenders = @ + 1,
                       !.totalRenderCost = @ + renderCost,
                       !.causeBreakdown[cause.type] = @ + 1,
                       !.causeDeltaBreakdown[cause.type] = @ + 1]
      WithProps(p) == IF cause.type = "props_change" /\ cause.hasPropChanges
                      THEN AccumulatePropChanges(p, cause.propChanges) ELSE p
      WithParent(p) == UpdateParent(p, parentComponentId)
      WithDepth(p) == [p EXCEPT !.depth = depth]
      WithWindow(p) == UpdateVelocityWindow(p, t)
      WithFlag(p) == UpdateSuspiciousFlag(p, t)
  IN Force(Force(Force(Force(Force(Force(profile, Counted), WithProps), WithParent),
                       WithDepth), WithWindow), WithFlag)

AccumulateRender(st, pos, node, componentId, parentComponentId, depth, t) ==
  IF InferThrows(node, parentComponentId, st.commitSet)
  THEN [st EXCEPT !.threw = TRUE]
  ELSE IF ProfileIndex(st.profiles, componentId) = 0 /\ node.fault = "name"
  \* generateRenderId() has run when getComponentName throws: the id is
  \* used up, no profile is stored
  THEN [st EXCEPT !.threw = TRUE, !.ridCounter = @ + 1]
  ELSE
  LET cause == InferRenderCause(node, parentComponentId, st.commitSet)
      renderCost == RenderCost(st.nInCommit)
      idx == ProfileIndex(st.profiles, componentId)
      created == idx = 0
      old == IF created
             THEN NewProfile(st.ridCounter + 1, componentId, node, depth, t)
             ELSE st.profiles[idx]
      Stored(updated) ==
        [st EXCEPT
           !.profiles = IF created THEN Append(st.profiles, updated)
                        ELSE [st.profiles EXCEPT ![idx] = updated],
           !.ridCounter = IF created THEN @ + 1 ELSE @,
           !.log = Append(@, [pos |-> pos,
                              fiber |-> FiberOf(node),
                              componentId |-> componentId,
                              profileId |-> updated.id,
                              parentComponentId |-> parentComponentId,
                              parentRendered |-> parentComponentId \in st.commitSet,
                              depth |-> depth,
                              renderCost |-> renderCost,
                              cause |-> cause])]
  IN Force(ApplyRender(old, cause, renderCost, parentComponentId, depth, t), Stored)

\* ------------------------------------------------------------------------
\* 4.2 Tree walker.  A tree is [n, child, sibling, node]: positions 1..n, root 1,
\* child[i] / sibling[i] the position of fiber.child / fiber.sibling (0: null),
\* node[i] the fiber at position i.
\* ------------------------------------------------------------------------
RECURSIVE CountRenderedComponents(_, _, _)
CountRenderedComponents(tree, pos, st) ==
  IF pos = 0 \/ st.threw THEN st
  ELSE IF tree.node[pos].fault = "tag" THEN [st EXCEPT !.threw = TRUE]
  ELSE LET node == tree.node[pos]
           Counted(s) == IF IsUserComponent(node) /\ DidFiberRender(node)
                         THEN [s EXCEPT !.nInCommit = @ + 1] ELSE s
           Child(s) == CountRenderedComponents(tree, tree.child[pos], s)
           Sibling(s) == CountRenderedComponents(tree, tree.sibling[pos], s)
       IN Force(Force(Force(st, Counted), Child), Sibling)

\* The visit of one fiber: identity, accumulation, registration in the rendered
\* set.  Returns the state and the id the fiber got (0 when it is not visited).
VisitFiber(st, pos, node, parentComponentId, depth, t) ==
  IF ~(IsUserComponent(node) /\ DidFiberRender(node)) THEN [st |-> st, id |-> 0]
  ELSE LET Accumulated(got) ==
             LET Registered(a) ==
                   [st |-> IF a.threw THEN a ELSE [a EXCEPT !.commitSet = @ \cup {got.id}],
                    id |-> got.id]
             IN Force(AccumulateRender(
                        [st EXCEPT !.f2c = got.f2c, !.idCounter = got.counter],
                        pos, node, got.id, parentComponentId, depth, t),
                      Registered)
       IN Force(GetOrCreateComponentId(st.f2c, st.idCounter, FiberOf(node)), Accumulated)

RECURSIVE WalkFiberTree(_, _, _, _, _, _)
WalkFiberTree(tree, pos, parentComponentId, depth, t, st) ==
  IF pos = 0 \/ st.threw THEN st
  ELSE LET Descend(v) ==
             \* the parameter is reassigned: child and sibling both receive it
             LET newParent == IF v.id # 0 THEN v.id ELSE parentComponentId
                 Sibling(s) == WalkFiberTree(tree, tree.sibling[pos], newParent, depth, t, s)
             IN Force(WalkFiberTree(tree, tree.child[pos], newParent, depth + 1, t, v.st),
                      Sibling)
       IN Force(VisitFiber(st, pos, tree.node[pos], parentComponentId, depth, t), Descend)

\* ------------------------------------------------------------------------
\* 4.7 Snapshot emitter
\* ------------------------------------------------------------------------
\* Array.prototype.sort((a, b) => b[1] - a[1]): stable, descending by count
RECURSIVE InsertByCount(_, _)
InsertByCount(sorted, e) ==
  IF sorted = <<>> THEN <<e>>
  ELSE IF Head(sorted)[2] >= e[2] THEN <<Head(sorted)>> \o InsertByCount(Tail(sorted), e)
  ELSE <<e>> \o sorted

RECURSIVE SortByCountDesc(_)
SortByCountDesc(m) ==
  IF m = <<>> THEN <<>>
  ELSE InsertByCount(SortByCountDesc(SubSeq(m, 1, Len(m) - 1)), m[Len(m)])

\* Math.round((refOnlyCount / count) * 100) in double precision, for
\* 0 <= refOnlyCount <= count.  The two floating point roundings (of the
\* quotient, then of the product) are far smaller than the distance of a
\* percentage from a half unless the percentage is m / 2 with m odd; there
\* the quotient is refOnlyCount / count + err / (count * 2^(52 + shift)) after
\* rounding to 53 bits (to nearest, ties to even), and the product is less
\* than m / 2, so that Math.round gives (m - 1) / 2, exactly when err < 0 and
\* the shortfall 100 * -err / (count * 2^(52 + shift)) exceeds half the gap
\* below m / 2
RoundPercent(refOnlyCount, count) ==
  LET nearest == (200 * refOnlyCount + count) \div (2 * count)
      m == (200 * refOnlyCount) \div count
      RECURSIVE Shift(_)
      \* the least t from n on with refOnlyCount * 2^t >= count
      Shift(n) == IF refOnlyCount * (2 ^ n) >= count THEN n ELSE Shift(n + 1)
      RECURSIVE Digits(_, _, _)
      \* the remainder and the last binary digit after n more digits of the
      \* quotient
      Digits(r, bit, n) ==
        IF n = 0 THEN [r |-> r, bit |-> bit]
        ELSE Digits((2 * r) % count, (2 * r) \div count, n - 1)
      RECURSIVE Exponent(_)
      \* the greatest k from n on with 2^(k + 1) <= m
      Exponent(n) == IF 2 ^ (n + 2) <= m THEN Exponent(n + 1) ELSE n
  IN IF (200 * refOnlyCount) % count # 0 \/ m % 2 = 0
     THEN nearest
     ELSE LET shift == Shift(1)
              q == Digits(refOnlyCount % count, 0, 52 + shift)
              up == 2 * q.r > count \/ (2 * q.r = count /\ q.bit = 1)
              err == IF up THEN count - q.r ELSE 0 - q.r
              k == Exponent(0 - 1)
          IN IF err < 0 /\ (IF m = 1 THEN 400 ELSE 200) * (0 - err) > count * (2 ^ (shift + k))
             THEN nearest - 1
             ELSE nearest

BuildPropChangeSnapshot(profile) ==
  LET stats == profile.propChangeStats
      all == SortByCountDesc(stats.changeCount)
      sorted == SubSeq(all, 1, Min(Len(all), TOP_PROPS_TO_REPORT))
  IN IF Len(stats.changeCount) = 0
     THEN [defined |-> FALSE, topChangedProps |-> <<>>]
     ELSE [defined |-> TRUE,
           topChangedProps |->
             [i \in 1..Len(sorted) |->
                [key |-> sorted[i][1],
                 count |-> sorted[i][2],
                 referenceOnlyPercent |->
                   IF sorted[i][2] > 0
                   THEN RoundPercent(MapGet(stats.referenceOnlyCount, sorted[i][1]),
                                     sorted[i][2])
                   ELSE 0]]]

\* a live record whose phase is decided by the time of the last emission
LiveSnapshotPhaseByTime(profile, t) ==
  [id |-> profile.id,
   componentId |-> profile.componentId,
   componentName |-> profile.componentName,
   componentType |-> profile.componentType,
   totalRenders |-> profile.totalRenders,
   totalRenderCost |-> profile.totalRenderCost,
   avgRenderCost |-> [num |-> profile.totalRenderCost, den |-> profile.totalRenders],
   rendersDelta |-> profile.totalRenders - profile.lastEmittedRenderCount,
   renderCostDelta |-> profile.totalRenderCost - profile.lastEmittedRenderCost,
   renderVelocity |-> CalculateVelocity(profile, t),
   causeBreakdown |-> profile.causeBreakdown,
   causeDeltaBreakdown |-> profile.causeDeltaBreakdown,
   parentComponentId |-> profile.primaryParentId,
   depth |-> profile.depth,
   isSuspicious |-> profile.isSuspicious,
   suspiciousReason |-> profile.suspiciousReason,
   renderPhase |-> IF profile.lastEmitTime = profile.mountedAt THEN "mount" ELSE "update",
   mountedAt |-> profile.mountedAt,
   unmountedAt |-> -1,
   propChanges |-> BuildPropChangeSnapshot(profile)]

LiveSnapshot(profile, t) ==
  [id |-> profile.id,
   componentId |-> profile.componentId,
   componentName |-> profile.componentName,
   componentType |-> profile.componentType,
   totalRenders |-> profile.totalRenders,
   totalRenderCost |-> profile.totalRenderCost,
   avgRenderCost |-> [num |-> profile.totalRenderCost, den |-> profile.totalRenders],
   rendersDelta |-> profile.totalRenders - profile.lastEmittedRenderCount,
   renderCostDelta |-> profile.totalRenderCost - profile.lastEmittedRenderCost,
   renderVelocity |-> CalculateVelocity(profile, t),
   causeBreakdown |-> profile.causeBreakdown,
   causeDeltaBreakdown |-> profile.causeDeltaBreakdown,
   parentComponentId |-> profile.primaryParentId,
   depth |-> profile.depth,
   isSuspicious |-> profile.isSuspicious,
   suspiciousReason |-> profile.suspiciousReason,
   renderPhase |-> IF profile.lastEmittedRenderCount = 0 THEN "mount" ELSE "update",
   mountedAt |-> profile.mountedAt,
   unmountedAt |-> -1,
   propChanges |-> BuildPropChangeSnapshot(profile)]

UnmountSnapshot(profile) ==
  [id |-> profile.id,
   componentId |-> profile.componentId,
   componentName |-> profile.componentName,
   componentType |-> profile.componentType,
   totalRenders |-> profile.totalRenders,
   totalRenderCost |-> profile.totalRenderCost,
   avgRenderCost |-> [num |-> profile.totalRenderCost,
                      den |-> Max(profile.totalRenders, 1)],
   rendersDelta |-> 0,
   renderCostDelta |-> 0,
   renderVelocity |-> [num |-> 0, den |-> 1],
   causeBreakdown |-> profile.causeBreakdown,
   causeDeltaBreakdown |-> CreateEmptyCauseBreakdown,
   parentComponentId |-> profile.primaryParentId,
   depth |-> profile.depth,
   isSuspicious |-> profile.isSuspicious,
   suspiciousReason |-> profile.suspiciousReason,
   renderPhase |-> "unmount",
   mountedAt |-> profile.mountedAt,
   unmountedAt |-> profile.unmountedAt,
   propChanges |-> BuildPropChangeSnapshot(profile)]

\* a skip test that looks at the delta only
SkippedOnDeltaOnly(profile) ==
  profile.totalRenders - profile.lastEmittedRenderCount < MIN_DELTA_TO_EMIT

\* the skip test of the emission loop
Skipped(profile) ==
  /\ profile.totalRenders - profile.lastEmittedRenderCount < MIN_DELTA_TO_EMIT
  /\ ~profile.isSuspicious

\* the bookkeeping after a snapshot without the delta reset
MarkEmittedKeepingDeltas(profile, t) ==
  [profile EXCEPT
     !.lastEmittedRenderCount = profile.totalRenders,
     !.lastEmittedRenderCost = profile.totalRenderCost,
     !.lastEmitTime = t]

\* a bookkeeping that empties the deltas and keeps the emitted count
MarkEmittedKeepingCount(profile, t) ==
  [profile EXCEPT
     !.lastEmitTime = t,
     !.causeDeltaBreakdown = CreateEmptyCauseBreakdown,
     !.propChangeDelta = <<>>]

\* a bookkeeping that starts the totals again after a snapshot
MarkEmittedResettingTotals(profile, t) ==
  [profile EXCEPT
     !.totalRenders = 0,
     !.totalRenderCost = 0,
     !.lastEmittedRenderCount = 0,
     !.lastEmittedRenderCost = 0,
     !.lastEmitTime = t,
     !.causeDeltaBreakdown = CreateEmptyCauseBreakdown,
     !.propChangeDelta = <<>>]

\* a bookkeeping that also withdraws the flag once it has been reported
MarkEmittedClearingFlag(profile, t) ==
  [profile EXCEPT
     !.lastEmittedRenderCount = profile.totalRenders,
     !.lastEmittedRenderCost = profile.totalRenderCost,
     !.lastEmitTime = t,
     !.causeDeltaBreakdown = CreateEmptyCauseBreakdown,
     !.propChangeDelta = <<>>,
     !.isSuspicious = FALSE,
     !.suspiciousReason = NoReason]

MarkEmitted(profile, t) ==
  [profile EXCEPT
     !.lastEmittedRenderCount = profile.totalRenders,
     !.lastEmittedRenderCost = profile.totalRenderCost,
     !.lastEmitTime = t,
     !.causeDeltaBreakdown = CreateEmptyCauseBreakdown,
     !.propChangeDelta = <<>>]

RECURSIVE LiveSnapshots(_, _)
LiveSnapshots(ps, t) ==
  IF ps = <<>> THEN <<>>
  ELSE IF Skipped(Head(ps)) THEN LiveSnapshots(Tail(ps), t)
  ELSE <<LiveSnapshot(Head(ps), t)>> \o LiveSnapshots(Tail(ps), t)

\* an emitter without the empty-batch return
EmitSnapshotAlwaysSending(ps, pending, t) ==
  LET snapshots == LiveSnapshots(ps, t)
                   \o [i \in 1..Len(pending) |-> UnmountSnapshot(pending[i])]
  IN [profiles |-> [i \in 1..Len(ps) |->
                      IF Skipped(ps[i]) THEN ps[i] ELSE MarkEmitted(ps[i], t)],
      messages |-> <<[phase |-> "RENDER_SNAPSHOT",
                      timestamp |-> t,
                      profiles |-> snapshots]>>]

\* The result of emitSnapshot: the profiles after the loop, the batch built, and
\* the messages handed to sendMessage (none or one)
EmitSnapshot(ps, pending, t) ==
  LET snapshots == LiveSnapshots(ps, t)
                   \o [i \in 1..Len(pending) |-> UnmountSnapshot(pending[i])]
  IN [profiles |-> [i \in 1..Len(ps) |->
                      IF Skipped(ps[i]) THEN ps[i] ELSE MarkEmitted(ps[i], t)],
      messages |-> IF Len(snapshots) = 0 THEN <<>>
                   ELSE <<[phase |-> "RENDER_SNAPSHOT",
                           timestamp |-> t,
                           profiles |-> snapshots]>>]

\* ------------------------------------------------------------------------
\* State
\* ------------------------------------------------------------------------
VARIABLES
  isSetup,                    \* RenderInterceptor.isSetup
  timerOn,                    \* snapshotTimer # null
  nextTick,                   \* when the interval timer fires next
  profiles,                   \* Map componentId -> ComponentProfile (insertion order)
  fiberToComponentId,         \* WeakMap fiber -> componentId (0: absent)
  componentIdCounter,
  currentCommitComponents,
  componentsInCurrentCommit,
  pendingUnmounts,
  renderIdCounter,            \* generateRenderId's counter: profile ids are 1, 2, ...
  now,                        \* Date.now()
  sent,                       \* every message handed to sendMessage, in order
  lastOp,                     \* the operation that produced this state
  lastArg,                    \* its argument: the tree of a commit, the fiber of an unmount
  commitLog,                  \* what pass 2 of that commit accumulated
  lastThrew,                  \* that commit's traversal raised (and the handler caught)
  nOps,                       \* notifications and calls received so far
  hook,                       \* globalObj.__REACT_DEVTOOLS_GLOBAL_HOOK__
  originalHook,               \* this.originalHook # null
  originalOnCommitFiberRoot,
  originalOnCommitFiberUnmount,
  lastCalls,                  \* what the last notification invoked, in order
  config,                     \* RenderInterceptor.config
  bridgeConfig,               \* RequestBridge.config
  pendingRequests,            \* RequestBridge.pendingRequests: the ids it holds
  requestsStarted,            \* the requests started so far (startRequest, xhr.send)
  xhrConfig,                  \* XHRInterceptor.config (null until its setup)
  xhrPending,                 \* the [xhr, id] of the sent XHRs with listeners attached and responseSent false
  lastRequestId,              \* the id the last bridge or XHR operation was about
  ws,                         \* LimelightClient.ws: "none" or its readyState
  messageQueue,               \* LimelightClient.messageQueue
  diffIn,                     \* diffProps' arguments: <<prevProps, nextProps>>
  diffOut,                    \* what diffProps returned for them
  sharedHook,                 \* a hook object that two RenderInterceptor instances wrap
  instances,                  \* the hook fields of those two instances
  reconnectAttempts,          \* LimelightClient.reconnectAttempts
  reconnectTimer,             \* LimelightClient.reconnectTimer: 0 for null, else its delay
  timers,                     \* the delays of the timeouts the host has pending
  scheduledSinceOpen,         \* reconnects scheduled since the last successful open
  consoleIsSetup,             \* ConsoleInterceptor.isSetup
  consoleConfig,              \* ConsoleInterceptor.config: whether it has a beforeSend
  isInternalLog,              \* ConsoleInterceptor.isInternalLog
  counter,                    \* ConsoleInterceptor.counter
  consoleOut,                 \* the last top-level console call and what it did
  xhrIsSetup,                 \* XHRInterceptor.isSetup
  networkIsSetup,             \* NetworkInterceptor.isSetup
  clientConfig                \* LimelightClient.config

vars ==
  <<isSetup, timerOn, nextTick, profiles, fiberToComponentId, componentIdCounter,
    currentCommitComponents, componentsInCurrentCommit, pendingUnmounts,
    renderIdCounter, now, sent, lastOp, lastArg, commitLog, lastThrew, nOps,
    hook, originalHook, originalOnCommitFiberRoot, originalOnCommitFiberUnmount,
    lastCalls, config, bridgeConfig, pendingRequests, requestsStarted, xhrConfig,
    xhrPending, lastRequestId, ws, messageQueue, diffIn, diffOut, sharedHook,
    instances, reconnectAttempts, reconnectTimer, timers, scheduledSinceOpen,
    consoleIsSetup, consoleConfig, isInternalLog, counter, consoleOut, xhrIsSetup,
    networkIsSetup, clientConfig>>

profilerVars ==
  <<profiles, fiberToComponentId, componentIdCounter, currentCommitComponents,
    componentsInCurrentCommit, pendingUnmounts, renderIdCounter>>

hookVars ==
  <<hook, originalHook, originalOnCommitFiberRoot, originalOnCommitFiberUnmount>>

\* two profiler instances on one hook
pairVars == <<sharedHook, instances>>

\* the client's reconnection
reconnectVars == <<reconnectAttempts, reconnectTimer, timers, scheduledSinceOpen>>

consoleVars == <<consoleIsSetup, consoleConfig, isInternalLog, counter, consoleOut>>

\* the request bridge, the XHR interceptor and the client's connection
\* what the client's configure sets besides the console interceptor
setupVars == <<xhrIsSetup, networkIsSetup, clientConfig>>

wireVars ==
  <<bridgeConfig, pendingRequests, requestsStarted, xhrConfig, xhrPending,
    lastRequestId, ws, messageQueue, diffIn, diffOut, reconnectVars, setupVars>>

\* what the profiler's own operations leave alone
netVars == <<wireVars, consoleVars>>

clientVars == <<netVars, pairVars>>

\* what setup and cleanup assign besides the profiler's tables
hostVars == <<hookVars, config, clientVars>>

\* what the client's own operations leave alone
renderVars ==
  <<isSetup, timerOn, nextTick, profilerVars, now, lastArg, commitLog, lastThrew,
    hookVars, lastCalls, config, pairVars>>

\* ------------------------------------------------------------------------
\* Hook callbacks.  A callback is [kind, of]:
\*   "none"    : undefined / null
\*   "host"    : the callback the host's own hook object came with
\*   "bound"   : cb.bind(hook) of the callback in of[1]
\*   "wrapper" : the closure wrapExistingHook installs (original, then profiler)
\*   "own"     : the closure createHook installs (profiler only)
\* ------------------------------------------------------------------------
NoCallback == [kind |-> "none", of |-> <<>>]

HostCallback == [kind |-> "host", of |-> <<>>]

Wrapper == [kind |-> "wrapper", of |-> <<>>]

OwnCallback == [kind |-> "own", of |-> <<>>]

\* cb?.bind(hook)
Bind(cb) == IF cb.kind = "none" THEN NoCallback ELSE [kind |-> "bound", of |-> <<cb>>]

\* madeBy tells the hook objects apart: the one the host installed and the one
\* createHook makes
NoHook == [exists |-> FALSE, madeBy |-> "nobody", onCommitFiberRoot |-> NoCallback,
           onCommitFiberUnmount |-> NoCallback]

\* a hook object installed by the host's developer tools before setup
HostHook == [exists |-> TRUE, madeBy |-> "host", onCommitFiberRoot |-> HostCallback,
             onCommitFiberUnmount |-> HostCallback]

\* What calling cb invokes, in order: "original" (the host's callback) and
\* "profiler" (the profiler's handler).  saved is the profiler's field
\* originalOnCommitFiber..., read by the wrapper when it is called.
RECURSIVE CallsOf(_, _)
CallsOf(cb, saved) ==
  CASE cb.kind = "none" -> <<>>
    [] cb.kind = "host" -> <<"original">>
    [] cb.kind = "bound" -> CallsOf(cb.of[1], saved)
    [] cb.kind = "own" -> <<"profiler">>
    [] cb.kind = "wrapper" -> CallsOf(saved, saved) \o <<"profiler">>

\* ------------------------------------------------------------------------
\* Configuration.  A LimelightConfig is [isNull, beforeSend, options]:
\* beforeSend names the user's callback by what it returns, options holds the
\* render options the caller supplied (a record; a name outside its DOMAIN is
\* not supplied).
\*   "none"     : no callback
\*   "drop"     : (event) => null
\*   "modify"   : (event) => ({...event, customField: "added"})
\*   "retype"   : (event) => an event of another phase
\*   "dropError": (event) => event.phase === "ERROR" ? null : event
\* ------------------------------------------------------------------------
NoOptions == [o \in {} |-> 0]

NoConfig == [isNull |-> TRUE, beforeSend |-> "none", options |-> NoOptions]

\* setup({})
DefaultConfig == [isNull |-> FALSE, beforeSend |-> "none", options |-> NoOptions]

\* the user's beforeSend applied to an event; Null stands for a null result
BeforeSend(kind, event) ==
  CASE kind = "drop" -> Null
    [] kind = "modify" -> [k \in DOMAIN event \cup {"customField"} |->
                            IF k = "customField" THEN "added" ELSE event[k]]
    [] kind = "retype" -> [event EXCEPT !.phase = "OTHER"]
    [] kind = "dropError" -> IF event.phase = "ERROR" THEN Null ELSE event
    [] OTHER -> event

\* the client's objects after construction
\* ------------------------------------------------------------------------
\* Two RenderInterceptor instances, 1 and 2, and a hook object that the host
\* installed before either was set up.  Of each instance the fields that
\* setup and cleanup exchange with the hook are kept; the wrapper an instance
\* installs is [kind |-> "wrapper", of |-> <<instance>>] and reads that
\* instance's saved callback when it is called.
\* ------------------------------------------------------------------------
Instances == {1, 2}

WrapperOf(i) == [kind |-> "wrapper", of |-> <<i>>]

\* the call of instance i's handler, as lastCalls records it
ProfilerCall(i) == <<"profiler1", "profiler2">>[i]

NewInstance ==
  [isSetup |-> FALSE, originalHook |-> FALSE,
   originalOnCommitFiberRoot |-> NoCallback,
   originalOnCommitFiberUnmount |-> NoCallback]

InitPair ==
  /\ sharedHook = HostHook
  /\ instances = [i \in Instances |-> NewInstance]

NoConsoleOut == [kind |-> "none"]

\* LimelightClient.config before the first configure
NoClientConfig ==
  [isNull |-> TRUE, enabled |-> FALSE, enableConsole |-> FALSE,
   enableNetworkInspector |-> FALSE, serverUrl |-> FALSE]

InitClient ==
  /\ InitPair
  /\ bridgeConfig = NoConfig
  /\ pendingRequests = {}
  /\ requestsStarted = 0
  /\ xhrConfig = NoConfig
  /\ xhrPending = {}
  /\ lastRequestId = 0
  /\ ws = "none"
  /\ messageQueue = <<>>
  /\ reconnectAttempts = 0
  /\ reconnectTimer = 0
  /\ timers = <<>>
  /\ scheduledSinceOpen = 0
  /\ consoleIsSetup = FALSE
  /\ consoleConfig = FALSE
  /\ isInternalLog = FALSE
  /\ counter = 0
  /\ consoleOut = NoConsoleOut
  /\ xhrIsSetup = FALSE
  /\ networkIsSetup = FALSE
  /\ clientConfig = NoClientConfig

NoTree == [n |-> 0, child |-> <<>>, sibling |-> <<>>, node |-> <<>>]

NoArg == [tree |-> NoTree, fiber |-> NoFiber]

TimeStepMs == SNAPSHOT_INTERVAL_MS

InitProfiler ==
  /\ isSetup = FALSE
  /\ timerOn = FALSE
  /\ nextTick = 0
  /\ profiles = <<>>
  /\ fiberToComponentId = [f \in Fibers |-> 0]
  /\ componentIdCounter = 0
  /\ currentCommitComponents = {}
  /\ componentsInCurrentCommit = 0
  /\ pendingUnmounts = <<>>
  /\ renderIdCounter = 0
  /\ now = 0
  /\ sent = <<>>
  /\ lastOp = "init"
  /\ lastArg = NoArg
  /\ commitLog = <<>>
  /\ lastThrew = FALSE
  /\ nOps = 0
  /\ hook = NoHook
  /\ originalHook = FALSE
  /\ originalOnCommitFiberRoot = NoCallback
  /\ originalOnCommitFiberUnmount = NoCallback
  /\ lastCalls = <<>>
  /\ config = NoConfig

Init ==
  /\ InitProfiler
  /\ InitClient
  /\ diffIn = <<NullProps, NullProps>>
  /\ diffOut = <<>>

\* ------------------------------------------------------------------------
\* Inputs: fibers and trees the host framework hands to the hook
\* ------------------------------------------------------------------------
UnitTag(u) ==
  CASE u = 1 -> FunctionComponent
    [] u = 2 -> MemoComponent
    [] u = 3 -> ClassComponent
    [] OTHER -> HostComponent

PA == Props(1, << <<"a", Num(1)>>, <<"children", Obj(20, <<>>)>> >>)
PB == Props(2, << <<"a", Num(2)>>, <<"children", Obj(21, <<>>)>> >>)
PF1 == Props(3, << <<"onPress", Fn(30)>>, <<"style", Obj(40, << <<"x", Num(1)>> >>)>> >>)
PF2 == Props(4, << <<"onPress", Fn(31)>>, <<"style", Obj(41, << <<"x", Num(1)>> >>)>> >>)

\* <<alternate.memoizedProps, fiber.memoizedProps>>
SameProps == <<PA, PA>>
ValueChange == <<PA, PB>>
RefOnlyChange == <<PF1, PF2>>

MkNode(u, ver, flags, pp, stateChanged, fault) ==
  [unit |-> u, ver |-> ver, tag |-> UnitTag(u), flags |-> flags,
   prevProps |-> pp[1], props |-> pp[2], stateChanged |-> stateChanged,
   fault |-> fault]

\* a fiber that performed no work this commit
IdleNode(u) == MkNode(u, 1, Placement, SameProps, FALSE, "none")

\* a first render (no alternate)
MountNode(u) == MkNode(u, 0, PerformedWork, SameProps, FALSE, "none")

\* a re-render of version ver
UpdateNode(u, ver, pp, stateChanged) ==
  MkNode(u, ver, PerformedWork + Placement, pp, stateChanged, "none")

\* a host element (never trackable)
HostNode == MkNode(4, 0, PerformedWork, SameProps, FALSE, "none")

Shape1 == [n |-> 1, child |-> <<0>>, sibling |-> <<0>>]
ShapeChild == [n |-> 2, child |-> <<2, 0>>, sibling |-> <<0, 0>>]
ShapeSibling == [n |-> 2, child |-> <<0, 0>>, sibling |-> <<2, 0>>]
ShapeChain == [n |-> 3, child |-> <<2, 3, 0>>, sibling |-> <<0, 0, 0>>]
ShapeTwoKids == [n |-> 3, child |-> <<2, 0, 0>>, sibling |-> <<0, 3, 0>>]
ShapeChildThenSibling == [n |-> 3, child |-> <<2, 0, 0>>, sibling |-> <<3, 0, 0>>]
ShapeThreeSiblings == [n |-> 3, child |-> <<0, 0, 0>>, sibling |-> <<2, 3, 0>>]
ShapeSiblingWithChild == [n |-> 3, child |-> <<0, 3, 0>>, sibling |-> <<2, 0, 0>>]

MkTree(shape, nodes) ==
  [n |-> shape.n, child |-> shape.child, sibling |-> shape.sibling, node |-> nodes]

\* The trees of the lifecycle specification
LifeTrees ==
  { MkTree(Shape1, <<MountNode(1)>>),
    MkTree(Shape1, <<IdleNode(1)>>),
    MkTree(Shape1, <<UpdateNode(1, 1, SameProps, TRUE)>>),
    MkTree(Shape1, <<UpdateNode(1, 2, ValueChange, FALSE)>>),
    MkTree(Shape1, <<UpdateNode(1, 2, SameProps, FALSE)>>),
    MkTree(ShapeChild, <<MountNode(1), UpdateNode(2, 1, RefOnlyChange, FALSE)>>),
    MkTree(ShapeChild, <<UpdateNode(1, 1, SameProps, FALSE),
                         UpdateNode(2, 1, SameProps, TRUE)>>),
    MkTree(ShapeSibling, <<MountNode(2), MountNode(1)>>) }

FaultTrees ==
  { MkTree(ShapeChild, <<MountNode(1),
                         MkNode(2, 1, PerformedWork, ValueChange, FALSE, "diff")>>),
    MkTree(ShapeSibling, <<MountNode(1),
                           MkNode(2, 0, PerformedWork, SameProps, FALSE, "tag")>>) }

UnmountFibers == {<<1, 0>>, <<1, 1>>, <<2, 1>>}

\* ------------------------------------------------------------------------
\* Operations
\* ------------------------------------------------------------------------
\* an installation that puts the profiler's callbacks in place of the host's
InstallHookReplacing(h) ==
  IF h.exists
  THEN [hook |-> [h EXCEPT !.onCommitFiberRoot = OwnCallback,
                           !.onCommitFiberUnmount = OwnCallback],
        originalHook |-> TRUE,
        originalOnCommitFiberRoot |-> Bind(h.onCommitFiberRoot),
        originalOnCommitFiberUnmount |-> Bind(h.onCommitFiberUnmount)]
  ELSE [hook |-> [exists |-> TRUE, madeBy |-> "profiler",
                  onCommitFiberRoot |-> OwnCallback,
                  onCommitFiberUnmount |-> OwnCallback],
        originalHook |-> originalHook,
        originalOnCommitFiberRoot |-> originalOnCommitFiberRoot,
        originalOnCommitFiberUnmount |-> originalOnCommitFiberUnmount]

\* installHook: wrap the hook that exists, or create one
InstallHook(h) ==
  IF h.exists
  THEN [hook |-> [h EXCEPT !.onCommitFiberRoot = Wrapper,
                           !.onCommitFiberUnmount = Wrapper],
        originalHook |-> TRUE,
        originalOnCommitFiberRoot |-> Bind(h.onCommitFiberRoot),
        originalOnCommitFiberUnmount |-> Bind(h.onCommitFiberUnmount)]
  ELSE [hook |-> [exists |-> TRUE, madeBy |-> "profiler",
                  onCommitFiberRoot |-> OwnCallback,
                  onCommitFiberUnmount |-> OwnCallback],
        originalHook |-> originalHook,
        originalOnCommitFiberRoot |-> originalOnCommitFiberRoot,
        originalOnCommitFiberUnmount |-> originalOnCommitFiberUnmount]

\* a setup without the guard on isSetup
SetupUnguarded ==
  /\ IF FALSE
     THEN UNCHANGED <<isSetup, timerOn, nextTick, hostVars>>
     ELSE /\ \E r \in {InstallHook(hook)} :
               /\ hook' = r.hook
               /\ originalHook' = r.originalHook
               /\ originalOnCommitFiberRoot' = r.originalOnCommitFiberRoot
               /\ originalOnCommitFiberUnmount' = r.originalOnCommitFiberUnmount
          /\ config' = DefaultConfig
          /\ UNCHANGED clientVars
          /\ isSetup' = TRUE
          /\ timerOn' = TRUE
          /\ nextTick' = now + SNAPSHOT_INTERVAL_MS
  /\ lastOp' = "setup"
  /\ lastArg' = NoArg /\ commitLog' = <<>> /\ lastThrew' = FALSE /\ lastCalls' = <<>>
  /\ UNCHANGED <<profilerVars, now, sent>>

\* setup(config)
SetupWith(cfg) ==
  /\ IF isSetup
     THEN UNCHANGED <<isSetup, timerOn, nextTick, hostVars>>
     ELSE /\ \E r \in {InstallHook(hook)} :
               /\ hook' = r.hook
               /\ originalHook' = r.originalHook
               /\ originalOnCommitFiberRoot' = r.originalOnCommitFiberRoot
               /\ originalOnCommitFiberUnmount' = r.originalOnCommitFiberUnmount
          /\ config' = cfg
          /\ UNCHANGED clientVars
          /\ isSetup' = TRUE
          /\ timerOn' = TRUE
          /\ nextTick' = now + SNAPSHOT_INTERVAL_MS
  /\ lastOp' = "setup"
  /\ lastArg' = NoArg /\ commitLog' = <<>> /\ lastThrew' = FALSE /\ lastCalls' = <<>>
  /\ UNCHANGED <<profilerVars, now, sent>>

\* setup({})
Setup == SetupWith(DefaultConfig)

\* the first setup of a profiler
FirstSetup == ~isSetup /\ Setup /\ UNCHANGED nOps

\* cleanup: the callbacks saved at setup go back on the hook they came from
RestoreHook(h, saved, savedRoot, savedUnmount) ==
  IF saved
  THEN [h EXCEPT
          !.onCommitFiberRoot = IF savedRoot.kind # "none" THEN savedRoot ELSE @,
          !.onCommitFiberUnmount = IF savedUnmount.kind # "none" THEN savedUnmount ELSE @]
  ELSE h

\* a cleanup without the guard on isSetup
CleanupUnguarded ==
  /\ IF FALSE
     THEN UNCHANGED <<isSetup, timerOn, profilerVars, sent, hostVars>>
     ELSE /\ \E r \in {EmitSnapshot(profiles, pendingUnmounts, now)} :
               sent' = sent \o r.messages
          /\ timerOn' = FALSE
          /\ hook' = RestoreHook(hook, originalHook, originalOnCommitFiberRoot,
                                 originalOnCommitFiberUnmount)
          /\ originalHook' = FALSE
          /\ originalOnCommitFiberRoot' = NoCallback
          /\ originalOnCommitFiberUnmount' = NoCallback
          /\ config' = NoConfig
          /\ UNCHANGED clientVars
          /\ profiles' = <<>>
          /\ pendingUnmounts' = <<>>
          /\ currentCommitComponents' = {}
          /\ componentIdCounter' = 0
          /\ isSetup' = FALSE
          /\ UNCHANGED <<fiberToComponentId, componentsInCurrentCommit, renderIdCounter>>
  /\ lastOp' = "cleanup"
  /\ lastArg' = NoArg /\ commitLog' = <<>> /\ lastThrew' = FALSE /\ lastCalls' = <<>>
  /\ UNCHANGED <<nextTick, now>>

\* cleanup
Cleanup ==
  /\ IF ~isSetup
     THEN UNCHANGED <<isSetup, timerOn, profilerVars, sent, hostVars>>
     ELSE /\ \E r \in {EmitSnapshot(profiles, pendingUnmounts, now)} :
               sent' = sent \o r.messages
          /\ timerOn' = FALSE
          /\ hook' = RestoreHook(hook, originalHook, originalOnCommitFiberRoot,
                                 originalOnCommitFiberUnmount)
          /\ originalHook' = FALSE
          /\ originalOnCommitFiberRoot' = NoCallback
          /\ originalOnCommitFiberUnmount' = NoCallback
          /\ config' = NoConfig
          /\ UNCHANGED clientVars
          /\ profiles' = <<>>
          /\ pendingUnmounts' = <<>>
          /\ currentCommitComponents' = {}
          /\ componentIdCounter' = 0
          /\ isSetup' = FALSE
          /\ UNCHANGED <<fiberToComponentId, componentsInCurrentCommit, renderIdCounter>>
  /\ lastOp' = "cleanup"
  /\ lastArg' = NoArg /\ commitLog' = <<>> /\ lastThrew' = FALSE /\ lastCalls' = <<>>
  /\ UNCHANGED <<nextTick, now>>

\* What a CommandHandler is constructed with as interceptors.render: the
\* RenderInterceptor of the repository, which has no resetProfiles method, or
\* the double of the handler's tests, whose resetProfiles is a spy.
Renders == {"RenderInterceptor", "double"}

\* CommandHandler.handle of a CLEAR_RENDERS command on the repository's
\* RenderInterceptor: this.interceptors.render.resetProfiles is not a
\* function, so the call throws before anything is acknowledged
HandleClearRenders(hasId) ==
  /\ UNCHANGED <<isSetup, timerOn, nextTick, profilerVars, hostVars, sent>>
  /\ lastOp' = "clearRenders"
  /\ lastArg' = NoArg /\ commitLog' = <<>> /\ lastThrew' = TRUE /\ lastCalls' = <<>>
  /\ UNCHANGED now

\* A command is [type, id]; id 0 stands for a command without id.
AckOf(command) ==
  [phase |-> "ACK", commandId |-> command.id, type |-> command.type, success |-> TRUE]

\* CommandHandler.handle(command) of a handler constructed with render;
\* lastCalls records the interceptor calls that returned
Handle(command, render) ==
  LET throws == command.type = "CLEAR_RENDERS" /\ render = "RenderInterceptor"
  IN /\ lastCalls' = IF command.type = "CLEAR_RENDERS" /\ ~throws
                     THEN <<"resetProfiles">> ELSE <<>>
     /\ UNCHANGED <<isSetup, timerOn, nextTick, profilerVars, hostVars>>
     /\ sent' = IF command.id # 0 /\ ~throws THEN Append(sent, AckOf(command)) ELSE sent
     /\ lastOp' = "command"
     /\ lastArg' = [tree |-> NoTree, fiber |-> NoFiber, command |-> command,
                    render |-> render]
     /\ commitLog' = <<>> /\ lastThrew' = throws
     /\ UNCHANGED now

\* the profiler's state as the commit handler sees it
ProfilerState ==
  [profiles |-> profiles, f2c |-> fiberToComponentId,
   idCounter |-> componentIdCounter, ridCounter |-> renderIdCounter,
   commitSet |-> currentCommitComponents, nInCommit |-> componentsInCurrentCommit,
   log |-> <<>>, threw |-> FALSE, caught |-> FALSE]

\* a commit handler that keeps the commit context of the previous commit
HandleCommitFiberRootNoReset(st, tree, t) ==
  LET Pass1(s) == CountRenderedComponents(tree, 1, s)
      Pass2(s) == WalkFiberTree(tree, 1, 0, 0, t, s)
      Catch(s) == [s EXCEPT !.threw = FALSE, !.caught = s.caught \/ s.threw]
  IN Force(Force(Force(st, Pass1), Pass2), Catch)

\* handleCommitFiberRoot: reset of the commit context, then both passes inside
\* try / catch
HandleCommitFiberRoot(st, tree, t) ==
  LET Reset(s) == [s EXCEPT !.commitSet = {}, !.nInCommit = 0]
      Pass1(s) == CountRenderedComponents(tree, 1, s)
      Pass2(s) == WalkFiberTree(tree, 1, 0, 0, t, s)
      Catch(s) == [s EXCEPT !.threw = FALSE, !.caught = s.caught \/ s.threw]
  IN Force(Force(Force(Force(st, Reset), Pass1), Pass2), Catch)

\* the calls one onCommitFiberRoot notification makes, applied in order
RECURSIVE RunRootCalls(_, _, _, _)
RunRootCalls(calls, st, tree, t) ==
  IF calls = <<>> THEN st
  ELSE LET Rest(s) == RunRootCalls(Tail(calls), s, tree, t)
       IN IF Head(calls) = "profiler"
          THEN Force(HandleCommitFiberRoot(st, tree, t), Rest)
          ELSE Rest(st)

\* the host calls hook.onCommitFiberRoot(rendererID, root)
NotifyCommit(tree) ==
  /\ hook.exists
  /\ \E calls \in {CallsOf(hook.onCommitFiberRoot, originalOnCommitFiberRoot)} :
       \E st \in {RunRootCalls(calls, ProfilerState, tree, now)} :
            \* an exception that left the handler reaches the host
            /\ lastCalls' = calls \o (IF st.threw THEN <<"raised">> ELSE <<>>)
            /\ profiles' = st.profiles
            /\ fiberToComponentId' = st.f2c
            /\ componentIdCounter' = st.idCounter
            /\ renderIdCounter' = st.ridCounter
            /\ currentCommitComponents' = st.commitSet
            /\ componentsInCurrentCommit' = st.nInCommit
            /\ commitLog' = st.log
            /\ lastThrew' = st.caught
  /\ lastArg' = [tree |-> tree, fiber |-> NoFiber]
  /\ lastOp' = "commit"
  /\ nOps' = nOps + 1
  /\ UNCHANGED <<isSetup, timerOn, nextTick, pendingUnmounts, now, sent, hostVars>>

Commit(tree) == nOps < MaxOps /\ NotifyCommit(tree)

\* an unmount handler that queues the removal but keeps the profile live
HandleCommitFiberUnmountKeepingLive(ps, pending, f2c, fiber, t) ==
  LET untouched == [profiles |-> ps, pendingUnmounts |-> pending]
      componentId == f2c[fiber]
      idx == ProfileIndex(ps, componentId)
  IN IF ~IsUserComponent([tag |-> UnitTag(fiber[1])]) THEN untouched
     ELSE IF componentId = 0 THEN untouched
     ELSE IF idx = 0 THEN untouched
     ELSE [profiles |-> ps,
           pendingUnmounts |-> Append(pending, [ps[idx] EXCEPT !.unmountedAt = t])]

\* handleCommitFiberUnmount, reached through the hook's onCommitFiberUnmount
HandleCommitFiberUnmount(ps, pending, f2c, fiber, t) ==
  LET untouched == [profiles |-> ps, pendingUnmounts |-> pending]
      componentId == f2c[fiber]
      idx == ProfileIndex(ps, componentId)
  IN IF ~IsUserComponent([tag |-> UnitTag(fiber[1])]) THEN untouched
     ELSE IF componentId = 0 THEN untouched
     ELSE IF idx = 0 THEN untouched
     ELSE [profiles |-> RemoveAt(ps, idx),
           pendingUnmounts |-> Append(pending, [ps[idx] EXCEPT !.unmountedAt = t])]

\* the calls one onCommitFiberUnmount notification makes, applied in order
RECURSIVE RunUnmountCalls(_, _, _, _, _)
RunUnmountCalls(calls, r, f2c, fiber, t) ==
  IF calls = <<>> THEN r
  ELSE LET Rest(x) == RunUnmountCalls(Tail(calls), x, f2c, fiber, t)
       IN IF Head(calls) = "profiler"
          THEN Force(HandleCommitFiberUnmount(r.profiles, r.pendingUnmounts, f2c, fiber, t),
                     Rest)
          ELSE Rest(r)

\* the host calls hook.onCommitFiberUnmount(rendererID, fiber)
NotifyUnmount(fiber) ==
  /\ hook.exists
  /\ \E calls \in {CallsOf(hook.onCommitFiberUnmount, originalOnCommitFiberUnmount)} :
       /\ lastCalls' = calls
       /\ \E r \in {RunUnmountCalls(calls,
                        [profiles |-> profiles, pendingUnmounts |-> pendingUnmounts],
                        fiberToComponentId, fiber, now)} :
            /\ profiles' = r.profiles
            /\ pendingUnmounts' = r.pendingUnmounts
  /\ lastOp' = "unmount"
  /\ lastArg' = [tree |-> NoTree, fiber |-> fiber]
  /\ commitLog' = <<>> /\ lastThrew' = FALSE
  /\ nOps' = nOps + 1
  /\ UNCHANGED <<isSetup, timerOn, nextTick, fiberToComponentId, componentIdCounter,
                 currentCommitComponents, componentsInCurrentCommit, renderIdCounter,
                 now, sent, hostVars>>

Unmount(fiber) == nOps < MaxOps /\ NotifyUnmount(fiber)

Emit(op) ==
  /\ \E r \in {EmitSnapshot(profiles, pendingUnmounts, now)} :
        /\ profiles' = r.profiles
        /\ sent' = sent \o r.messages
  /\ pendingUnmounts' = <<>>
  /\ lastOp' = op
  /\ lastArg' = NoArg /\ commitLog' = <<>> /\ lastThrew' = FALSE /\ lastCalls' = <<>>
  /\ UNCHANGED <<isSetup, timerOn, fiberToComponentId, componentIdCounter,
                 currentCommitComponents, componentsInCurrentCommit, renderIdCounter,
                 now, hostVars>>

\* the setInterval callback
Tick ==
  /\ timerOn
  /\ now = nextTick
  /\ nextTick' = nextTick + SNAPSHOT_INTERVAL_MS
  /\ Emit("tick")
  /\ UNCHANGED nOps

ForceEmit ==
  /\ nOps < MaxOps
  /\ nOps' = nOps + 1
  /\ Emit("forceEmit")
  /\ UNCHANGED nextTick

\* time passes (the clock starts at setup); a due timer callback runs before
\* time moves on
Elapse(ms) ==
  /\ timerOn => now + ms <= nextTick
  /\ now' = now + ms
  /\ lastOp' = "advance"
  /\ lastArg' = NoArg /\ commitLog' = <<>> /\ lastThrew' = FALSE /\ lastCalls' = <<>>
  /\ UNCHANGED <<isSetup, timerOn, nextTick, profilerVars, sent, nOps, hostVars>>

Advance ==
  /\ isSetup
  /\ now + TimeStepMs <= MaxTimeSteps * TimeStepMs
  /\ Elapse(TimeStepMs)

CommitLife == \E tree \in LifeTrees : Commit(tree)

CommitFault == \E tree \in FaultTrees : Commit(tree)

UnmountAny == \E fiber \in UnmountFibers : Unmount(fiber)

Next == FirstSetup \/ CommitLife \/ CommitFault \/ UnmountAny \/ Tick \/ ForceEmit \/ Advance

Spec == Init /\ [][Next]_vars

\* ------------------------------------------------------------------------
\* The tree-walk specification: the first commit hands over any tree of up to
\* three fibers, later commits a tree of FollowTrees.
\* ------------------------------------------------------------------------
WalkNodes(u) ==
  { IdleNode(u), MountNode(u),
    UpdateNode(u, 1, SameProps, FALSE), UpdateNode(u, 1, SameProps, TRUE),
    UpdateNode(u, 1, ValueChange, FALSE), UpdateNode(u, 1, ValueChange, TRUE) }

Shapes3 ==
  {ShapeChain, ShapeTwoKids, ShapeChildThenSibling, ShapeThreeSiblings,
   ShapeSiblingWithChild}

WalkTrees ==
  {MkTree(Shape1, <<a>>) : a \in WalkNodes(1)}
    \cup {MkTree(sh, <<a, b>>) :
            sh \in {ShapeChild, ShapeSibling}, a \in WalkNodes(1), b \in WalkNodes(2)}
    \cup {MkTree(sh, <<a, b, c>>) :
            sh \in Shapes3, a \in WalkNodes(1), b \in WalkNodes(2), c \in WalkNodes(3)}
    \cup {MkTree(sh, <<a, HostNode, c>>) :
            sh \in {ShapeChain, ShapeTwoKids}, a \in WalkNodes(1), c \in WalkNodes(3)}
    \cup {MkTree(ShapeTwoKids,
                 <<MountNode(1), MkNode(2, v, PerformedWork, ValueChange, FALSE, f),
                   MountNode(3)>>) :
            v \in {0, 1}, f \in {"tag", "name", "diff"}}

FollowTrees ==
  { MkTree(Shape1, <<UpdateNode(2, 1, SameProps, TRUE)>>),
    MkTree(ShapeChild, <<UpdateNode(1, 1, SameProps, FALSE),
                         UpdateNode(2, 2, ValueChange, TRUE)>>),
    MkTree(ShapeSibling, <<UpdateNode(3, 1, ValueChange, FALSE), IdleNode(1)>>) }

CommitWalk == nOps = 0 /\ \E tree \in WalkTrees : Commit(tree)

CommitFollow == nOps > 0 /\ \E tree \in FollowTrees : Commit(tree)

NextWalk == FirstSetup \/ CommitWalk \/ CommitFollow

SpecWalk == Init /\ [][NextWalk]_vars

\* ------------------------------------------------------------------------
\* The velocity specification: one unit that mounts and then re-renders, in a
\* burst at the instant of setup and at most once between two other events
\* afterwards, while the clock runs past the velocity window.
\* ------------------------------------------------------------------------
VelStepMs == SNAPSHOT_INTERVAL_MS \div 2

VelMount == MkTree(Shape1, <<MountNode(1)>>)

VelUpdate == MkTree(Shape1, <<UpdateNode(1, 1, SameProps, TRUE)>>)

CommitVel ==
  /\ nOps < MaxBurst + MaxVelSteps + MaxVelSteps
  /\ IF now = 0 THEN nOps < MaxBurst ELSE lastOp # "commit"
  /\ NotifyCommit(IF profiles = <<>> THEN VelMount ELSE VelUpdate)

AdvanceVel ==
  /\ isSetup
  /\ now + VelStepMs <= MaxVelSteps * VelStepMs
  /\ Elapse(VelStepMs)

NextVel == FirstSetup \/ CommitVel \/ Tick \/ AdvanceVel

SpecVelocity == Init /\ [][NextVel]_vars

\* ------------------------------------------------------------------------
\* The lifecycle specification: setup and cleanup in any order, with or without
\* a hook installed by the host before the first setup, and notifications
\* arriving through whatever the hook's callbacks are at the time.
\* ------------------------------------------------------------------------
InitLife ==
  /\ isSetup = FALSE
  /\ timerOn = FALSE
  /\ nextTick = 0
  /\ profiles = <<>>
  /\ fiberToComponentId = [f \in Fibers |-> 0]
  /\ componentIdCounter = 0
  /\ currentCommitComponents = {}
  /\ componentsInCurrentCommit = 0
  /\ pendingUnmounts = <<>>
  /\ renderIdCounter = 0
  /\ now = 0
  /\ sent = <<>>
  /\ lastOp = "init"
  /\ lastArg = NoArg
  /\ commitLog = <<>>
  /\ lastThrew = FALSE
  /\ nOps = 0
  /\ hook \in {NoHook, HostHook}
  /\ originalHook = FALSE
  /\ originalOnCommitFiberRoot = NoCallback
  /\ originalOnCommitFiberUnmount = NoCallback
  /\ lastCalls = <<>>
  /\ config = NoConfig
  /\ InitClient
  /\ diffIn = <<NullProps, NullProps>>
  /\ diffOut = <<>>

CycleTrees == {VelMount, VelUpdate, MkTree(ShapeSibling, <<MountNode(2), MountNode(1)>>)}

SetupLife == nOps < MaxLifeOps /\ Setup /\ nOps' = nOps + 1

CleanupLife == nOps < MaxLifeOps /\ Cleanup /\ nOps' = nOps + 1

CommitCycle == nOps < MaxLifeOps /\ \E tree \in CycleTrees : NotifyCommit(tree)

UnmountCycle == nOps < MaxLifeOps /\ NotifyUnmount(<<1, 0>>)

CommandLife ==
  nOps < MaxLifeOps /\ nOps' = nOps + 1 /\ \E hasId \in BOOLEAN : HandleClearRenders(hasId)

AdvanceLife ==
  /\ now + TimeStepMs <= MaxTimeSteps * TimeStepMs
  /\ Elapse(TimeStepMs)

NextLife ==
  SetupLife \/ CleanupLife \/ CommitCycle \/ UnmountCycle \/ CommandLife \/ Tick
    \/ AdvanceLife

SpecLife == InitLife /\ [][NextLife]_vars

\* ------------------------------------------------------------------------
\* The configuration specification: the first setup receives any of the
\* configurations below, then commits arrive and the timer runs.
\* ------------------------------------------------------------------------
\* every render option supplied, each with a value other than its default
SuppliedOptions ==
  [snapshotIntervalMs |-> VelStepMs,
   velocityWindowMs |-> VELOCITY_WINDOW_MS \div 2,
   hotVelocityThreshold |-> HOT_VELOCITY + 1,
   highRenderCountThreshold |-> HIGH_RENDER_COUNT + 1,
   minDeltaToEmit |-> MIN_DELTA_TO_EMIT + 1,
   maxTrackedPropKeys |-> MAX_PROP_KEYS_TO_TRACK + 1,
   maxPropChangesPerSnapshot |-> MAX_PROP_CHANGES_PER_SNAPSHOT + 1,
   topPropsToReport |-> TOP_PROPS_TO_REPORT + 1]

Configs ==
  [isNull : {FALSE},
   beforeSend : {"none", "drop", "modify"},
   options : {NoOptions, [snapshotIntervalMs |-> VelStepMs], SuppliedOptions}]

SetupConfig == \E cfg \in Configs : ~isSetup /\ SetupWith(cfg) /\ UNCHANGED nOps

CommitConfig == nOps < MaxConfigOps /\ \E tree \in CycleTrees : NotifyCommit(tree)

NextConfig == SetupConfig \/ CommitConfig \/ Tick \/ AdvanceVel

SpecConfig == Init /\ [][NextConfig]_vars

\* ------------------------------------------------------------------------
\* The request bridge and the XHR interceptor.  A network event is
\* [phase, id, networkType].  Both objects hand their events to the same
\* sendMessage.
\* ------------------------------------------------------------------------
\* generateRequestId: 'req-' + Date.now() + '-' + a random suffix.  Nothing
\* keeps two calls from returning the same value, so a call returns any of
\* the values below, one returned before included
generateRequestId == 1..MaxRequestIds

NetworkEvent(phase, id, networkType) ==
  [phase |-> phase, id |-> id, networkType |-> networkType]

\* config?.beforeSend is set
HasBeforeSend(cfg) == ~cfg.isNull /\ cfg.beforeSend # "none"

\* startRequest: the pending table and the messages sent, for the id that
\* generateRequestId returned (pendingRequests.set replaces an entry under
\* the same id)
StartRequest(pending, cfg, requestId) ==
  LET requestEvent == NetworkEvent("REQUEST", requestId, "fetch")
      modifiedEvent == BeforeSend(cfg.beforeSend, requestEvent)
  IN IF HasBeforeSend(cfg) /\ modifiedEvent = Null
     THEN [pending |-> pending \ {requestId}, messages |-> <<>>]
     ELSE IF HasBeforeSend(cfg) /\ modifiedEvent.phase # "REQUEST"
     THEN [pending |-> pending \cup {requestId}, messages |-> <<>>]
     ELSE [pending |-> pending \cup {requestId},
           messages |-> <<IF HasBeforeSend(cfg) THEN modifiedEvent ELSE requestEvent>>]

\* endRequest
EndRequest(pending, cfg, requestId) ==
  LET responseEvent == NetworkEvent("RESPONSE", requestId, "fetch")
      modifiedEvent == BeforeSend(cfg.beforeSend, responseEvent)
  IN IF requestId \notin pending
     THEN [pending |-> pending, messages |-> <<>>]
     ELSE IF HasBeforeSend(cfg) /\ (modifiedEvent = Null \/ modifiedEvent.phase # "RESPONSE")
     THEN [pending |-> pending \ {requestId}, messages |-> <<>>]
     ELSE [pending |-> pending \ {requestId},
           messages |-> <<IF HasBeforeSend(cfg) THEN modifiedEvent ELSE responseEvent>>]

\* failRequest: the error event goes out unless beforeSend returned an ERROR
\* event to send in its place
FailRequest(pending, cfg, requestId) ==
  LET errorEvent == NetworkEvent("ERROR", requestId, "fetch")
      modifiedEvent == BeforeSend(cfg.beforeSend, errorEvent)
  IN IF requestId \notin pending
     THEN [pending |-> pending, messages |-> <<>>]
     ELSE [pending |-> pending \ {requestId},
           messages |-> <<IF HasBeforeSend(cfg) /\ modifiedEvent # Null
                               /\ modifiedEvent.phase = "ERROR"
                          THEN modifiedEvent ELSE errorEvent>>]

\* XMLHttpRequest.prototype.send of an opened request: data is the request
\* object's _limelightData, [xhr, id], with the id that generateRequestId
\* returned in open; listeners are attached only when the REQUEST event went
\* out
XhrSend(pending, cfg, data) ==
  LET requestEvent == NetworkEvent("REQUEST", data.id, "xhr")
      modifiedEvent == BeforeSend(cfg.beforeSend, requestEvent)
  IN IF HasBeforeSend(cfg) /\ (modifiedEvent = Null \/ modifiedEvent.phase # "REQUEST")
     THEN [pending |-> pending, messages |-> <<>>]
     ELSE [pending |-> pending \cup {data},
           messages |-> <<IF HasBeforeSend(cfg) THEN modifiedEvent ELSE requestEvent>>]

\* sendResponse (readystatechange, load)
XhrSendResponse(pending, cfg, data) ==
  LET responseEvent == NetworkEvent("RESPONSE", data.id, "xhr")
      modifiedEvent == BeforeSend(cfg.beforeSend, responseEvent)
  IN IF data \notin pending
     THEN [pending |-> pending, messages |-> <<>>]
     ELSE IF HasBeforeSend(cfg) /\ (modifiedEvent = Null \/ modifiedEvent.phase # "RESPONSE")
     THEN [pending |-> pending \ {data}, messages |-> <<>>]
     ELSE [pending |-> pending \ {data},
           messages |-> <<IF HasBeforeSend(cfg) THEN modifiedEvent ELSE responseEvent>>]

\* sendError (error, abort, timeout)
XhrSendError(pending, cfg, data) ==
  LET errorEvent == NetworkEvent("ERROR", data.id, "xhr")
      modifiedEvent == BeforeSend(cfg.beforeSend, errorEvent)
  IN IF data \notin pending
     THEN [pending |-> pending, messages |-> <<>>]
     ELSE [pending |-> pending \ {data},
           messages |-> <<IF HasBeforeSend(cfg) /\ modifiedEvent # Null
                               /\ modifiedEvent.phase = "ERROR"
                          THEN modifiedEvent ELSE errorEvent>>]

\* what setConfig receives: null, or a configuration with a beforeSend (one
\* without behaves as null does)
BridgeConfigs ==
  {NoConfig} \cup
  [isNull : {FALSE}, beforeSend : {"drop", "modify", "retype"}, options : {NoOptions}]

XhrConfigs ==
  [isNull : {FALSE}, beforeSend : {"none", "drop", "modify", "retype", "dropError"},
   options : {NoOptions}]

\* a bridge operation on request id: r is what it returned
BridgeStep(op, id, r) ==
  /\ pendingRequests' = r.pending
  /\ sent' = sent \o r.messages
  /\ lastOp' = op
  /\ lastRequestId' = id
  /\ UNCHANGED <<renderVars, nOps, bridgeConfig, xhrConfig, xhrPending, ws, messageQueue, reconnectVars, consoleVars, setupVars, diffIn, diffOut>>

\* an XHR handler on request id: r is what it returned
XhrStep(op, id, r) ==
  /\ xhrPending' = r.pending
  /\ sent' = sent \o r.messages
  /\ lastOp' = op
  /\ lastRequestId' = id
  /\ UNCHANGED <<renderVars, nOps, bridgeConfig, xhrConfig, pendingRequests, ws,
                 messageQueue, reconnectVars, consoleVars, setupVars, diffIn, diffOut>>

\* RequestBridge.setConfig(config | null)
BridgeSetConfig ==
  \E cfg \in BridgeConfigs :
    /\ cfg # bridgeConfig
    /\ bridgeConfig' = cfg
    /\ lastOp' = "setConfig"
    /\ lastRequestId' = 0
    /\ UNCHANGED <<renderVars, nOps, sent, pendingRequests, requestsStarted, xhrConfig,
                   xhrPending, ws, messageQueue, reconnectVars, consoleVars, setupVars, diffIn, diffOut>>

BridgeStart ==
  /\ requestsStarted < MaxRequests
  /\ requestsStarted' = requestsStarted + 1
  /\ \E requestId \in generateRequestId :
       \E r \in {StartRequest(pendingRequests, bridgeConfig, requestId)} :
         BridgeStep("startRequest", requestId, r)

\* the id above MaxRequestIds is never handed out: it is the unknown id
BridgeEnd ==
  \E id \in 1..(MaxRequestIds + 1) :
    /\ \E r \in {EndRequest(pendingRequests, bridgeConfig, id)} :
         BridgeStep("endRequest", id, r)
    /\ UNCHANGED requestsStarted

BridgeFail ==
  \E id \in 1..(MaxRequestIds + 1) :
    /\ \E r \in {FailRequest(pendingRequests, bridgeConfig, id)} :
         BridgeStep("failRequest", id, r)
    /\ UNCHANGED requestsStarted

\* RequestBridge.cleanup
BridgeCleanup ==
  /\ pendingRequests # {}
  /\ BridgeStep("bridgeCleanup", 0, [pending |-> {}, messages |-> <<>>])
  /\ UNCHANGED requestsStarted

\* XHRInterceptor.setup(config), not set up
XhrSetup ==
  /\ ~xhrIsSetup
  /\ xhrIsSetup' = TRUE
  /\ \E cfg \in XhrConfigs : xhrConfig' = cfg
  /\ lastOp' = "xhrSetup"
  /\ lastRequestId' = 0
  /\ UNCHANGED <<renderVars, nOps, sent, pendingRequests, requestsStarted, bridgeConfig,
                 xhrPending, ws, messageQueue, reconnectVars, consoleVars, networkIsSetup,
                 clientConfig, diffIn, diffOut>>

\* XHRInterceptor.cleanup(), set up: open, send and setRequestHeader are
\* restored, config and the listeners of the requests under way stay
XhrCleanup ==
  /\ xhrIsSetup
  /\ xhrIsSetup' = FALSE
  /\ lastOp' = "xhrCleanup"
  /\ lastRequestId' = 0
  /\ UNCHANGED <<renderVars, nOps, sent, pendingRequests, requestsStarted, bridgeConfig,
                 xhrConfig, xhrPending, ws, messageQueue, reconnectVars, consoleVars,
                 networkIsSetup, clientConfig, diffIn, diffOut>>

\* xhr.open(...); xhr.send(...) while the interceptor is set up
XhrOpenSend ==
  /\ xhrIsSetup
  /\ requestsStarted < MaxXhrRequests
  /\ requestsStarted' = requestsStarted + 1
  /\ \E id \in generateRequestId :
       \E data \in {[xhr |-> requestsStarted + 1, id |-> id]} :
         \E r \in {XhrSend(xhrPending, xhrConfig, data)} : XhrStep("xhrSend", id, r)

XhrLoad ==
  \E data \in xhrPending :
    /\ \E r \in {XhrSendResponse(xhrPending, xhrConfig, data)} :
         XhrStep("xhrResponse", data.id, r)
    /\ UNCHANGED requestsStarted

XhrFail ==
  \E data \in xhrPending :
    /\ \E r \in {XhrSendError(xhrPending, xhrConfig, data)} :
         XhrStep("xhrError", data.id, r)
    /\ UNCHANGED requestsStarted

NextBridge == BridgeSetConfig \/ BridgeStart \/ BridgeEnd \/ BridgeFail \/ BridgeCleanup

SpecBridge == Init /\ [][NextBridge]_vars

NextXhr == XhrSetup \/ XhrCleanup \/ XhrOpenSend \/ XhrLoad \/ XhrFail

SpecXhr == Init /\ [][NextXhr]_vars

\* ------------------------------------------------------------------------
\* The diff specification: diffProps applied to a previous and a next property
\* set that hold one property p, over the values below.
\* ------------------------------------------------------------------------
DiffValues ==
  {Undefined, Null, Num(1), Num(2), Fn(1), Fn(2),
   Obj(1, <<>>), Obj(2, <<>>),
   Obj(3, <<<<"a", Num(1)>>>>), Obj(4, <<<<"a", Num(1)>>>>), Obj(5, <<<<"a", Num(2)>>>>),
   Obj(6, <<<<"b", Num(1)>>>>), Obj(7, <<<<"a", Undefined>>>>),
   Obj(8, <<<<"a", Num(1)>>, <<"b", Num(2)>>>>),
   Obj(9, <<<<"a", Fn(1)>>>>), Obj(10, <<<<"a", Fn(2)>>>>),
   Arr(11, <<>>), Arr(12, <<<<"0", Num(1)>>>>), Arr(13, <<<<"0", Num(1)>>>>),
   Arr(14, <<<<"0", Num(2)>>>>), Arr(15, <<<<"0", Num(1)>>, <<"1", Num(2)>>>>)}

DiffInputs ==
  {<<Props(1, <<<<"p", a>>>>), Props(2, <<<<"p", b>>>>)>> : a, b \in DiffValues}

InitDiff ==
  /\ InitProfiler
  /\ InitClient
  /\ diffIn \in DiffInputs
  /\ diffOut = <<>>

\* diffProps(prevProps, nextProps)
RunDiff ==
  /\ lastOp = "init"
  /\ diffOut' = DiffProps(diffIn[1], diffIn[2])
  /\ lastOp' = "diffProps"
  /\ UNCHANGED <<renderVars, nOps, sent, bridgeConfig, pendingRequests, requestsStarted,
                 xhrConfig, xhrPending, lastRequestId, ws, messageQueue, reconnectVars, consoleVars, setupVars, diffIn>>

NextDiff == RunDiff

SpecDiff == InitDiff /\ [][NextDiff]_vars

\* ------------------------------------------------------------------------
\* The parent specification: unit 1 renders again and again, each time below
\* (or next to) unit 2 or unit 3, which renders with it or stays idle.
\* ------------------------------------------------------------------------
\* the version the host renders next for unit u: one per version recorded
NextVersion(u) == Cardinality({v \in Versions : fiberToComponentId[<<u, v>>] # 0})

\* the next render of unit u
RenderOf(u) ==
  IF NextVersion(u) = 0 THEN MountNode(u)
  ELSE UpdateNode(u, NextVersion(u), SameProps, TRUE)

ParentTrees ==
  {MkTree(sh, <<a, RenderOf(1)>>) :
     sh \in {ShapeChild, ShapeSibling},
     a \in {RenderOf(2), RenderOf(3), IdleNode(2)}}

CommitParent ==
  /\ nOps < MaxParentOps
  /\ \A u \in 1..3 : NextVersion(u) \in Versions
  /\ \E tree \in ParentTrees : NotifyCommit(tree)

NextParents == FirstSetup \/ CommitParent \/ Tick \/ AdvanceVel

SpecParents == Init /\ [][NextParents]_vars

\* ------------------------------------------------------------------------
\* The client's connection and message queue.  ws is "none" (null) or the
\* readyState of the socket: "connecting", "open", "closing" (no longer open,
\* its close event not yet delivered), "closed".  A message is a record of
\* its phase, a number n (an interceptor's message: the ordinal of the
\* sendMessage call that brought it; a CONSOLE message: the counter of the
\* console interceptor in its id) and, for a CONSOLE message, the console
\* level.  The client's own console.warn and console.error go through the
\* console interceptor connect() has set up, whose sendMessage is the
\* client's.
\* ------------------------------------------------------------------------
maxQueueSize == 100

EventMessage(n) == [phase |-> "EVENT", n |-> n, level |-> "none"]

ConnectMessage(n) == [phase |-> "CONNECT", n |-> n, level |-> "none"]

ConsoleMessage(n, level) == [phase |-> "CONSOLE", n |-> n, level |-> level]

\* the configurations configure stores: the defaults merged with the argument.
\* serverUrl: the url is a non-empty string (an argument with serverUrl: ""
\* or serverUrl: undefined replaces the default url)
ClientConfigs ==
  [isNull : {FALSE}, enabled : BOOLEAN, enableConsole : BOOLEAN,
   enableNetworkInspector : BOOLEAN, serverUrl : BOOLEAN]

\* configure({}): everything on, the default url, enabled as isDevelopment()
\* says
DefaultClientConfig(development) ==
  [isNull |-> FALSE, enabled |-> development, enableConsole |-> TRUE,
   enableNetworkInspector |-> TRUE, serverUrl |-> TRUE]

\* the arguments of connect: NoClientConfig stands for none
ConnectArgs == {NoClientConfig} \cup ClientConfigs

maxReconnectAttempts == 5

reconnectDelay == 1000

RECURSIVE Pow2(_)
Pow2(n) == IF n <= 0 THEN 1 ELSE 2 * Pow2(n - 1)

\* the delay attemptReconnect computes once reconnectAttempts is attempts
ReconnectDelayOf(attempts) == Min(reconnectDelay * Pow2(attempts - 1), 30000)

\* clearTimeout(handle): the pending timeouts without the one the handle names
ClearTimeout(pending, handle) ==
  IF handle = 0 \/ ~(\E i \in 1..Len(pending) : pending[i] = handle)
  THEN pending
  ELSE LET i == CHOOSE k \in 1..Len(pending) :
                  /\ pending[k] = handle
                  /\ \A l \in (k + 1)..Len(pending) : pending[l] # handle
       IN SubSeq(pending, 1, i - 1) \o SubSeq(pending, i + 1, Len(pending))

\* the client's reconnection fields, the host's pending timeouts and the
\* number of setTimeout calls since the last successful open
ReconnectState(attempts, timer, pending, scheduled) ==
  [reconnectAttempts |-> attempts, reconnectTimer |-> timer, timers |-> pending,
   scheduledSinceOpen |-> scheduled]

\* an attemptReconnect that never gives up
AttemptReconnectUnbounded(r) ==
  LET attempts == r.reconnectAttempts + 1
      delay == ReconnectDelayOf(attempts)
  IN ReconnectState(attempts, delay,
                    Append(ClearTimeout(r.timers, r.reconnectTimer), delay),
                    r.scheduledSinceOpen + 1)

\* attemptReconnect: nothing once maxReconnectAttempts are used up; else the
\* pending timer is cleared, the counter incremented and a timeout set
AttemptReconnect(r) ==
  IF r.reconnectAttempts >= maxReconnectAttempts
  THEN r
  ELSE LET attempts == r.reconnectAttempts + 1
           delay == ReconnectDelayOf(attempts)
       IN ReconnectState(attempts, delay,
                         Append(ClearTimeout(r.timers, r.reconnectTimer), delay),
                         r.scheduledSinceOpen + 1)

\* the client and its interceptors as a handler finds them.  throwing: the
\* ws.send calls of this handler that throw, counted from 1; calls: the
\* ws.send calls made so far
ClientRun(throwing) ==
  [messageQueue |-> messageQueue, ws |-> ws, clientConfig |-> clientConfig,
   networkIsSetup |-> networkIsSetup, xhrIsSetup |-> xhrIsSetup, xhrConfig |-> xhrConfig,
   consoleIsSetup |-> consoleIsSetup, consoleConfig |-> consoleConfig,
   isInternalLog |-> isInternalLog, counter |-> counter,
   reconnect |-> ReconnectState(reconnectAttempts, reconnectTimer, timers,
                                scheduledSinceOpen),
   calls |-> 0, throwing |-> throwing]

\* a handler leaves the client and its interceptors as run
SetClient(run) ==
  /\ messageQueue' = run.messageQueue
  /\ ws' = run.ws
  /\ clientConfig' = run.clientConfig
  /\ networkIsSetup' = run.networkIsSetup
  /\ xhrIsSetup' = run.xhrIsSetup
  /\ xhrConfig' = run.xhrConfig
  /\ consoleIsSetup' = run.consoleIsSetup
  /\ consoleConfig' = run.consoleConfig
  /\ isInternalLog' = run.isInternalLog
  /\ counter' = run.counter
  /\ reconnectAttempts' = run.reconnect.reconnectAttempts
  /\ reconnectTimer' = run.reconnect.reconnectTimer
  /\ timers' = run.reconnect.timers
  /\ scheduledSinceOpen' = run.reconnect.scheduledSinceOpen

\* the ws.send calls of a handler that may throw: its first MaxSendFaults and
\* the first MaxSendFaults after as many sends as the queue holds messages
SendFaults ==
  SUBSET ((1..MaxSendFaults) \cup ((Len(messageQueue) + 1)..(Len(messageQueue) + MaxSendFaults)))

\* this.messageQueue.shift() of a full queue
KeepOldest(queue) == queue

DropOldest(queue) == Tail(queue)

RECURSIVE ClientConsole(_, _)
RECURSIVE FlushMessageQueue(_)
RECURSIVE ClientSendMessage(_, _, _)

\* console[level](...) called by the client or by an interceptor's setup or
\* cleanup: the original alone when the console interceptor is not set up or
\* is inside a call of its own; else the wrapper hands a CONSOLE message to
\* sendMessage under the guard and then calls the original.  The client's
\* configurations carry no beforeSend
ClientConsole(run, level) ==
  IF ~run.consoleIsSetup \/ run.isInternalLog
  THEN run
  ELSE LET Unguarded(r) == [r EXCEPT !.isInternalLog = FALSE]
       IN Force(ClientSendMessage([run EXCEPT !.isInternalLog = TRUE, !.counter = @ + 1],
                                  ConsoleMessage(run.counter, level), TRUE),
                Unguarded)

\* flushMessageQueue: while the queue holds a message it is shifted and
\* handed to ws.send; a send that throws is logged with console.error, which
\* the console interceptor may turn into a further queued or sent message
FlushMessageQueue(run) ==
  IF run.ws # "open" \/ run.messageQueue = <<>>
  THEN run
  ELSE LET n == Len(run.messageQueue)
           failing == {k \in run.throwing : k > run.calls /\ k <= run.calls + n}
       IN IF failing = {}
          THEN [run EXCEPT !.messageQueue = <<>>, !.calls = @ + n]
          ELSE LET k == CHOOSE c \in failing : \A d \in failing : c <= d
                   Logged(r) == ClientConsole(r, "error")
               IN Force(Force([run EXCEPT !.messageQueue = SubSeq(@, k - run.calls + 1, n),
                                          !.calls = k],
                              Logged),
                        FlushMessageQueue)

\* sendMessage(message); stillOpen: the socket is still open after the flush
ClientSendMessage(run, message, stillOpen) ==
  IF run.ws = "open"
  THEN LET Sent(flushed) ==
             IF ~stillOpen
             THEN [flushed EXCEPT !.messageQueue = Append(@, message), !.ws = "closing"]
             ELSE IF (flushed.calls + 1) \in flushed.throwing
                  THEN LET Pushed(r) == [r EXCEPT !.messageQueue = Append(@, message)]
                       IN Force(ClientConsole([flushed EXCEPT !.calls = @ + 1], "error"),
                                Pushed)
                  ELSE [flushed EXCEPT !.calls = @ + 1]
       IN Force(FlushMessageQueue(run), Sent)
  ELSE IF Len(run.messageQueue) >= maxQueueSize
       THEN LET Pushed(r) == [r EXCEPT !.messageQueue = Append(DropOldest(@), message)]
            IN Force(ClientConsole(run, "warn"), Pushed)
       ELSE [run EXCEPT !.messageQueue = Append(@, message)]

\* networkInterceptor.setup(config)
NetworkSetup(run) ==
  IF run.networkIsSetup
  THEN ClientConsole(run, "warn")
  ELSE [run EXCEPT !.networkIsSetup = TRUE]

\* xhrInterceptor.setup(config)
ClientXhrSetup(run) ==
  IF run.xhrIsSetup
  THEN ClientConsole(run, "warn")
  ELSE [run EXCEPT !.xhrIsSetup = TRUE, !.xhrConfig = DefaultConfig]

\* consoleInterceptor.setup(config)
ClientConsoleSetup(run) ==
  IF run.consoleIsSetup
  THEN run
  ELSE [run EXCEPT !.consoleIsSetup = TRUE, !.consoleConfig = FALSE]

\* networkInterceptor.cleanup()
NetworkCleanup(run) ==
  IF run.networkIsSetup
  THEN [run EXCEPT !.networkIsSetup = FALSE]
  ELSE ClientConsole(run, "warn")

\* xhrInterceptor.cleanup()
ClientXhrCleanup(run) ==
  IF run.xhrIsSetup
  THEN [run EXCEPT !.xhrIsSetup = FALSE]
  ELSE ClientConsole(run, "warn")

\* consoleInterceptor.cleanup()
ClientConsoleCleanup(run) == [run EXCEPT !.consoleIsSetup = FALSE]

\* configure(config): the merged configuration is stored; when enabled, the
\* network and XHR interceptors and then the console interceptor are set up
Configure(run, cfg) ==
  LET Consoled(r) == IF cfg.enableConsole THEN ClientConsoleSetup(r) ELSE r
      Networked(r) ==
        IF cfg.enableNetworkInspector
        THEN Force(NetworkSetup(r), ClientXhrSetup)
        ELSE r
  IN IF ~cfg.enabled
     THEN [run EXCEPT !.clientConfig = cfg]
     ELSE Force(Force([run EXCEPT !.clientConfig = cfg], Networked), Consoled)

\* connect(config): configure with the argument, or with the defaults when
\* there is no configuration yet; nothing more when not enabled; a warning
\* with an open socket; else the old socket is dropped; without a serverUrl
\* an error is logged and no socket made; else a new WebSocket is made, and
\* if the constructor throws the error is logged and attemptReconnect runs
Connect(run, cfg, development, throws) ==
  LET Connected(r) ==
        IF ~r.clientConfig.enabled
        THEN r
        ELSE IF r.ws = "open"
             THEN ClientConsole(r, "warn")
             ELSE IF ~r.clientConfig.serverUrl
             THEN ClientConsole([r EXCEPT !.ws = "none"], "error")
             ELSE IF throws
                  THEN LET Reconnected(l) == [l EXCEPT !.reconnect = AttemptReconnect(@)]
                       IN Force(ClientConsole([r EXCEPT !.ws = "none"], "error"),
                                Reconnected)
                  ELSE [r EXCEPT !.ws = "connecting"]
  IN Force(IF ~cfg.isNull
           THEN Configure(run, cfg)
           ELSE IF run.clientConfig.isNull
                THEN Configure(run, DefaultClientConfig(development))
                ELSE run,
           Connected)

\* a client operation
ClientStep(op) ==
  /\ lastOp' = op
  /\ UNCHANGED <<renderVars, sent, bridgeConfig, pendingRequests, requestsStarted,
                 xhrPending, lastRequestId, diffIn, diffOut, consoleOut>>

\* an interceptor hands a message to the client
ClientSend ==
  /\ nOps < MaxSends
  /\ nOps' = nOps + 1
  /\ \E stillOpen \in BOOLEAN, throwing \in SendFaults :
       /\ ws = "open" \/ (stillOpen /\ throwing = {})
       /\ \E run \in {ClientSendMessage(ClientRun(throwing), EventMessage(nOps + 1),
                                        stillOpen)} :
            SetClient(run)
  /\ ClientStep("send")

\* connect(config) or connect(); args: the arguments, developments: what
\* isDevelopment() may say, outcomes: whether new WebSocket may throw.  With
\* an open socket the warnings of connect and of the interceptors reach
\* ws.send, which may throw
ClientConnectWith(args, developments, outcomes) ==
  /\ \E cfg \in args, development \in developments, throws \in outcomes,
        throwing \in SendFaults :
       /\ ws = "open" \/ throwing = {}
       /\ \E run \in {Connect(ClientRun(throwing), cfg, development, throws)} :
            SetClient(run)
  /\ UNCHANGED nOps
  /\ ClientStep("connect")

ClientConnect == ClientConnectWith(ConnectArgs, BOOLEAN, BOOLEAN)

\* ws.onopen: the counter is reset, the queue flushed and the CONNECT
\* message sent
ClientOpen ==
  /\ ws = "connecting"
  /\ nOps < MaxSends
  /\ nOps' = nOps + 1
  /\ \E stillOpen \in BOOLEAN, throwing \in SendFaults :
       LET Reset(r) ==
             [r EXCEPT !.ws = "open",
                       !.reconnect = ReconnectState(0, @.reconnectTimer, @.timers, 0)]
           Greeted(r) == ClientSendMessage(r, ConnectMessage(nOps + 1), stillOpen)
       IN \E run \in {Force(Force(Force(ClientRun(throwing), Reset), FlushMessageQueue),
                            Greeted)} :
            SetClient(run)
  /\ ClientStep("open")

\* ws.onclose: attemptReconnect
ClientClose ==
  /\ ws \in {"connecting", "open", "closing"}
  /\ \E run \in {[ClientRun({}) EXCEPT !.ws = "closed",
                                       !.reconnect = AttemptReconnect(@)]} :
       SetClient(run)
  /\ UNCHANGED nOps
  /\ ClientStep("close")

\* a pending timeout fires: reconnectTimer = null, then connect()
ClientReconnectWith(developments, outcomes) ==
  /\ \E i \in 1..Len(timers), development \in developments, throws \in outcomes,
        throwing \in SendFaults :
       LET Fired(r) ==
             [r EXCEPT !.reconnect =
                ReconnectState(@.reconnectAttempts, 0,
                               SubSeq(timers, 1, i - 1) \o
                               SubSeq(timers, i + 1, Len(timers)),
                               @.scheduledSinceOpen)]
       IN /\ ws = "open" \/ throwing = {}
          /\ \E run \in {Connect(Force(ClientRun(throwing), Fired), NoClientConfig,
                                 development, throws)} :
               SetClient(run)
  /\ UNCHANGED nOps
  /\ ClientStep("reconnect")

ClientReconnect == ClientReconnectWith(BOOLEAN, BOOLEAN)

\* ws.onerror: the error is logged with console.error
ClientError ==
  /\ ws \in {"connecting", "open", "closing"}
  /\ \E throwing \in SendFaults :
       /\ ws = "open" \/ throwing = {}
       /\ \E run \in {ClientConsole(ClientRun(throwing), "error")} : SetClient(run)
  /\ UNCHANGED nOps
  /\ ClientStep("error")

\* disconnect(): the socket's handlers are detached and the socket dropped,
\* the reconnect timer cleared, the three interceptors cleaned up, the
\* counter reset and the queue emptied
Disconnect(run) ==
  LET Dropped(r) ==
        [r EXCEPT !.ws = "none",
                  !.reconnect = ReconnectState(@.reconnectAttempts, 0,
                                               ClearTimeout(@.timers, @.reconnectTimer),
                                               @.scheduledSinceOpen)]
      Emptied(r) ==
        [r EXCEPT !.messageQueue = <<>>,
                  !.reconnect = ReconnectState(0, @.reconnectTimer, @.timers,
                                               @.scheduledSinceOpen)]
  IN Force(Force(Force(Force(Force(run, Dropped), NetworkCleanup), ClientXhrCleanup),
                 ClientConsoleCleanup),
           Emptied)

ClientDisconnect ==
  /\ \E run \in {Disconnect(ClientRun({}))} : SetClient(run)
  /\ UNCHANGED nOps
  /\ ClientStep("disconnect")

\* reset(): disconnect(), then the configuration is forgotten
ClientReset ==
  /\ LET Forgotten(r) == [r EXCEPT !.clientConfig = NoClientConfig]
     IN \E run \in {Force(Disconnect(ClientRun({})), Forgotten)} : SetClient(run)
  /\ UNCHANGED nOps
  /\ ClientStep("reset")

\* the queue is followed with connect() without arguments in development,
\* which sets the three interceptors up, a WebSocket constructor that does not
\* throw, at most one reconnect scheduled between two opens, MaxConsoleCalls
\* messages of the console interceptor, and connection changes within the
\* first MaxEarlySends messages or at a full queue
QueueSettled == nOps <= MaxEarlySends \/ Len(messageQueue) >= maxQueueSize

QueueSend == ClientSend /\ counter' <= MaxConsoleCalls

QueueConnect ==
  /\ QueueSettled
  /\ ClientConnectWith({NoClientConfig}, {TRUE}, {FALSE})
  /\ counter' <= MaxConsoleCalls

QueueOpen == QueueSettled /\ ClientOpen /\ counter' <= MaxConsoleCalls

QueueClose == QueueSettled /\ scheduledSinceOpen = 0 /\ ClientClose

QueueError == QueueSettled /\ ClientError /\ counter' <= MaxConsoleCalls

QueueDisconnect == QueueSettled /\ ClientDisconnect /\ counter' <= MaxConsoleCalls

QueueReset == QueueSettled /\ ClientReset /\ counter' <= MaxConsoleCalls

NextClient ==
  QueueSend \/ QueueConnect \/ QueueOpen \/ QueueError \/ QueueClose \/ QueueDisconnect
  \/ QueueReset

SpecClient == Init /\ [][NextClient]_vars

\* reconnection is followed with few messages, the configurations of the
\* queue, MaxScheduled reconnects between two opens and MaxConsoleCalls
\* messages of the console interceptor
ReconnectConfigs ==
  {cfg \in ConnectArgs : cfg.isNull \/ (cfg.enabled /\ cfg.enableNetworkInspector)}

ReconnectSend == nOps < MaxReconnectSends /\ ClientSend /\ counter' <= MaxConsoleCalls

ReconnectOpen == nOps < MaxReconnectSends /\ ClientOpen /\ counter' <= MaxConsoleCalls

ReconnectConnect ==
  /\ scheduledSinceOpen < MaxScheduled
  /\ ClientConnectWith(ReconnectConfigs, {TRUE}, BOOLEAN)
  /\ counter' <= MaxConsoleCalls

ReconnectClose == scheduledSinceOpen < MaxScheduled /\ ClientClose

ReconnectFire ==
  /\ scheduledSinceOpen < MaxScheduled
  /\ ClientReconnectWith({TRUE}, BOOLEAN)
  /\ counter' <= MaxConsoleCalls

ReconnectError == ClientError /\ counter' <= MaxConsoleCalls

ReconnectDisconnect == ClientDisconnect /\ counter' <= MaxConsoleCalls

ReconnectReset == ClientReset /\ counter' <= MaxConsoleCalls

NextReconnect ==
  ReconnectSend \/ ReconnectConnect \/ ReconnectOpen \/ ReconnectError \/ ReconnectClose
  \/ ReconnectFire \/ ReconnectDisconnect \/ ReconnectReset

SpecReconnect == Init /\ [][NextReconnect]_vars

\* ------------------------------------------------------------------------
\* The command specification: commands of known and unknown type, with and
\* without id, arrive between the commits and ticks of a set-up profiler.
\* ------------------------------------------------------------------------
Commands == [type : {"CLEAR_RENDERS", "ACK", "PING"}, id : 0..2]

CommandAny ==
  /\ nOps < MaxCommandOps
  /\ nOps' = nOps + 1
  /\ \E command \in Commands, render \in Renders : Handle(command, render)

CommitCommand == nOps < MaxCommandOps /\ \E tree \in CycleTrees : NotifyCommit(tree)

NextCommand == FirstSetup \/ CommitCommand \/ CommandAny \/ Tick \/ AdvanceLife

SpecCommand == Init /\ [][NextCommand]_vars

\* ------------------------------------------------------------------------
\* The property specification: unit 1 renders below unit 2, which renders with
\* it, each time with a run of its 22 properties as its property set, all of
\* them changed by value or all by reference only; emissions come in between.
\* ------------------------------------------------------------------------
PropKeyNames ==
  <<"p01", "p02", "p03", "p04", "p05", "p06", "p07", "p08", "p09", "p10", "p11",
    "p12", "p13", "p14", "p15", "p16", "p17", "p18", "p19", "p20", "p21", "p22">>

\* the runs of keys a render carries, <<first, last>>, and whether its values
\* changed by reference only
ChangedRuns ==
  {<<<<1, 11>>, FALSE>>, <<<<9, 16>>, FALSE>>, <<<<9, 16>>, TRUE>>,
   <<<<17, 22>>, FALSE>>, <<<<20, 21>>, TRUE>>}

\* <<alternate.memoizedProps, fiber.memoizedProps>> of a render in which the
\* keys of run changed
PropPair(run, referenceOnly) ==
  LET before == IF referenceOnly THEN Fn(50) ELSE Num(1)
      after == IF referenceOnly THEN Fn(51) ELSE Num(2)
      keys == SubSeq(PropKeyNames, run[1], run[2])
  IN <<Props(5, [i \in 1..Len(keys) |-> <<keys[i], before>>]),
       Props(6, [i \in 1..Len(keys) |-> <<keys[i], after>>])>>

PropTrees ==
  IF profiles = <<>>
  THEN {MkTree(ShapeChild, <<MountNode(2), MountNode(1)>>)}
  ELSE {MkTree(ShapeChild, <<UpdateNode(2, 1, SameProps, TRUE),
                             UpdateNode(1, 1, PropPair(c[1], c[2]), FALSE)>>) :
          c \in ChangedRuns}

CommitProps ==
  /\ nOps < MaxPropOps
  /\ \E tree \in PropTrees : NotifyCommit(tree)

EmitProps ==
  /\ isSetup
  /\ lastOp = "commit"
  /\ Emit("forceEmit")
  /\ UNCHANGED <<nextTick, nOps>>

NextProps == FirstSetup \/ CommitProps \/ EmitProps

SpecProps == Init /\ [][NextProps]_vars

\* ------------------------------------------------------------------------
\* The pair specification: two instances are set up on the host's hook and
\* cleaned up, in any order and again, while the host goes on notifying the
\* hook.
\* ------------------------------------------------------------------------
\* what calling cb invokes, in order: "original" and the handlers of the
\* instances; a wrapper calls the callback its instance holds at that moment,
\* and then the handler of its instance.  active: the instances whose wrapper
\* is being called; a wrapper that reaches itself through the callback its
\* instance holds recurses until the stack is used up (RangeError), which
\* ends every call under way before a handler has run
RECURSIVE PairCallsOf(_, _, _)
PairCallsOf(cb, saved, active) ==
  CASE cb.kind = "none" -> <<>>
    [] cb.kind = "host" -> <<"original">>
    [] cb.kind = "bound" -> PairCallsOf(cb.of[1], saved, active)
    [] cb.kind = "wrapper" ->
         IF cb.of[1] \in active
         THEN <<"raised">>
         ELSE LET inner == PairCallsOf(saved[cb.of[1]], saved, active \cup {cb.of[1]})
              IN IF inner # <<>> /\ inner[Len(inner)] = "raised"
                 THEN inner
                 ELSE inner \o <<ProfilerCall(cb.of[1])>>

RootCalls(h, insts) ==
  PairCallsOf(h.onCommitFiberRoot,
              [i \in Instances |-> insts[i].originalOnCommitFiberRoot], {})

UnmountCalls(h, insts) ==
  PairCallsOf(h.onCommitFiberUnmount,
              [i \in Instances |-> insts[i].originalOnCommitFiberUnmount], {})

\* how many binds deep a callback is
RECURSIVE BindDepth(_)
BindDepth(cb) == IF cb.kind = "bound" THEN 1 + BindDepth(cb.of[1]) ELSE 0

PairStep(op) ==
  /\ lastOp' = op
  /\ lastArg' = NoArg /\ commitLog' = <<>>
  /\ lastThrew' = (lastCalls' # <<>> /\ lastCalls'[Len(lastCalls')] = "raised")
  /\ UNCHANGED <<isSetup, timerOn, nextTick, profilerVars, now, sent, hookVars,
                 config, netVars>>

\* setup of instance i, not set up: installHook finds the hook and wraps it,
\* again after a cleanup too
PairSetup ==
  \E i \in Instances :
    /\ ~instances[i].isSetup
    /\ BindDepth(Bind(sharedHook.onCommitFiberRoot)) <= MaxBindDepth
    /\ instances' =
         [instances EXCEPT ![i] =
            [isSetup |-> TRUE, originalHook |-> TRUE,
             originalOnCommitFiberRoot |-> Bind(sharedHook.onCommitFiberRoot),
             originalOnCommitFiberUnmount |-> Bind(sharedHook.onCommitFiberUnmount)]]
    /\ sharedHook' = [sharedHook EXCEPT !.onCommitFiberRoot = WrapperOf(i),
                                        !.onCommitFiberUnmount = WrapperOf(i)]
    /\ lastCalls' = <<>>
    /\ PairStep("setup")
    /\ UNCHANGED nOps

\* cleanup of instance i
PairCleanup ==
  \E i \in Instances :
    /\ instances[i].isSetup
    /\ sharedHook' = RestoreHook(sharedHook, instances[i].originalHook,
                                 instances[i].originalOnCommitFiberRoot,
                                 instances[i].originalOnCommitFiberUnmount)
    /\ instances' =
         [instances EXCEPT ![i] =
            [isSetup |-> FALSE, originalHook |-> FALSE,
             originalOnCommitFiberRoot |-> NoCallback,
             originalOnCommitFiberUnmount |-> NoCallback]]
    /\ lastCalls' = <<>>
    /\ PairStep("cleanup")
    /\ UNCHANGED nOps

\* the host calls sharedHook.onCommitFiberRoot
PairCommit ==
  /\ nOps < MaxPairNotifications
  /\ nOps' = nOps + 1
  /\ lastCalls' = RootCalls(sharedHook, instances)
  /\ PairStep("commit")
  /\ UNCHANGED pairVars

\* the host calls sharedHook.onCommitFiberUnmount
PairUnmount ==
  /\ nOps < MaxPairNotifications
  /\ nOps' = nOps + 1
  /\ lastCalls' = UnmountCalls(sharedHook, instances)
  /\ PairStep("unmount")
  /\ UNCHANGED pairVars

NextPair == PairSetup \/ PairCleanup \/ PairCommit \/ PairUnmount

SpecPair == Init /\ [][NextPair]_vars

\* ------------------------------------------------------------------------
\* The console interceptor.  A top-level console call is one step: JavaScript
\* runs the wrapper, beforeSend, sendMessage and the calls they make to the
\* end before anything else.  A call names its level, what beforeSend does
\* with the event, whether beforeSend and sendMessage log themselves,
\* whether sendMessage throws and whether the original method throws for the
\* call's arguments.
\* ------------------------------------------------------------------------
ConsoleLevels == {"log", "error"}

ConsoleCalls ==
  [level : ConsoleLevels,
   beforeSend : {"same", "drop", "wrongPhase", "throws"},
   logsInBeforeSend : BOOLEAN,
   sendThrows : BOOLEAN,
   logsInSend : BOOLEAN,
   originalThrows : BOOLEAN]

\* a console.warn made from inside beforeSend or sendMessage
NestedCall ==
  [level |-> "warn", beforeSend |-> "same", logsInBeforeSend |-> FALSE,
   sendThrows |-> FALSE, logsInSend |-> FALSE, originalThrows |-> FALSE]

\* the console.error of the wrapper itself
InternalError == [NestedCall EXCEPT !.level = "error"]

\* original.apply(console, args)
OriginalCall(level, args) == [level |-> level, args |-> args]

ConsoleEvent(level, args, id) ==
  [phase |-> "CONSOLE", level |-> level, args |-> args, id |-> id]

NoCalls == [messages |-> <<>>, originals |-> <<>>]

\* console[level](...args) as setup replaced it, called with isInternalLog =
\* guard when the counter is id: the messages handed to sendMessage, the
\* calls of original methods in order, whether the call threw and the guard
\* it leaves
RECURSIVE ConsoleWrapper(_, _, _, _, _)
ConsoleWrapper(c, args, guard, id, hasBeforeSend) ==
  LET top == OriginalCall(c.level, args)
  IN IF guard
     THEN [messages |-> <<>>, originals |-> <<top>>, threw |-> c.originalThrows,
           isInternalLog |-> TRUE]
     ELSE
       LET event == ConsoleEvent(c.level, args, id)
           \* beforeSend runs, and what it logs goes through console
           inBefore == IF hasBeforeSend /\ c.logsInBeforeSend
                       THEN ConsoleWrapper(NestedCall, "nested", TRUE, id + 1,
                                           hasBeforeSend)
                       ELSE NoCalls
           \* console.error("[Limelight] beforeSend must return same event type")
           inWrapper == IF hasBeforeSend /\ c.beforeSend = "wrongPhase"
                        THEN ConsoleWrapper(InternalError, "internal", TRUE, id + 1,
                                            hasBeforeSend)
                        ELSE NoCalls
           \* return original.apply(console, args) inside the try block
           forwards == hasBeforeSend /\ c.beforeSend \in {"drop", "wrongPhase"}
           sends == ~hasBeforeSend \/ c.beforeSend = "same"
           inSend == IF sends /\ c.logsInSend
                     THEN ConsoleWrapper(NestedCall, "nested", TRUE, id + 1,
                                         hasBeforeSend)
                     ELSE NoCalls
           \* the try block returned; everything else, a throwing original
           \* included, ends in catch and goes on after the try statement
           returned == forwards /\ ~c.originalThrows
           tried == inBefore.originals \o inWrapper.originals \o inSend.originals \o
                    (IF forwards THEN <<top>> ELSE <<>>)
       IN [messages |-> inBefore.messages \o inWrapper.messages \o
                        (IF sends THEN <<event>> ELSE <<>>) \o inSend.messages,
           originals |-> IF returned THEN tried ELSE Append(tried, top),
           threw |-> ~returned /\ c.originalThrows,
           isInternalLog |-> FALSE]

\* a console interceptor operation
ConsoleStep(op) ==
  /\ lastOp' = op
  /\ UNCHANGED <<renderVars, sent, nOps, wireVars>>

\* ConsoleInterceptor.setup(config), not set up
ConsoleSetup ==
  /\ ~consoleIsSetup
  /\ consoleIsSetup' = TRUE
  /\ \E hasBeforeSend \in BOOLEAN : consoleConfig' = hasBeforeSend
  /\ UNCHANGED <<isInternalLog, counter, consoleOut>>
  /\ ConsoleStep("consoleSetup")

\* ConsoleInterceptor.cleanup(), set up
ConsoleCleanup ==
  /\ consoleIsSetup
  /\ consoleIsSetup' = FALSE
  /\ UNCHANGED <<consoleConfig, isInternalLog, counter, consoleOut>>
  /\ ConsoleStep("consoleCleanup")

\* the program calls console[level](...) while the interceptor is set up
ConsoleCall ==
  /\ consoleIsSetup
  /\ counter < MaxConsoleCalls
  /\ \E c \in ConsoleCalls :
       \E r \in {ConsoleWrapper(c, "user", isInternalLog, counter, consoleConfig)} :
         /\ isInternalLog' = r.isInternalLog
         /\ counter' = IF isInternalLog THEN counter ELSE counter + 1
         /\ consoleOut' = [kind |-> "call", call |-> c, args |-> "user",
                           messages |-> r.messages, originals |-> r.originals,
                           threw |-> r.threw]
  /\ UNCHANGED <<consoleIsSetup, consoleConfig>>
  /\ ConsoleStep("console")

NextConsole == ConsoleSetup \/ ConsoleCleanup \/ ConsoleCall

SpecConsole == Init /\ [][NextConsole]_vars

\* ========================================================================
\* Properties
\* ========================================================================
LiveIndexes == 1..Len(profiles)

\* C1: in every reachable state, for every live profile, the six causeBreakdown
\* counters sum to exactly totalRenders.
CauseBreakdownSumsToTotalRenders ==
  \A i \in LiveIndexes :
    BreakdownSum(profiles[i].causeBreakdown) = profiles[i].totalRenders

\* C1 witness: a faulting commit has just been caught, after an emission, and a
\* live profile has three renders spread over two causes.
CauseBreakdownWitness ==
  /\ lastOp = "commit" /\ lastThrew
  /\ sent # <<>>
  /\ \E i \in LiveIndexes :
       /\ profiles[i].totalRenders >= 3
       /\ profiles[i].causeBreakdown["unknown"] > 0
       /\ profiles[i].causeBreakdown["state_change"] > 0

\* the positions of a tree holding a trackable fiber that performed work
TrackableWork(tree) ==
  {i \in 1..tree.n : IsUserComponent(tree.node[i]) /\ DidFiberRender(tree.node[i])}

SumOfRenderCost(ps) == SeqSum([i \in 1..Len(ps) |-> ps[i].totalRenderCost])

\* C2: a commit that completes without a traversal fault and holds N >= 1
\* trackable fibers that performed work accumulates exactly those N fibers, once
\* each, charges each of them 1/N, and adds exactly 1 to the cost of all profiles.
CommitChargesOneInTotal ==
  [][ (lastOp' = "commit" /\ ~lastThrew' /\ TrackableWork(lastArg'.tree) # {}) =>
        LET work == TrackableWork(lastArg'.tree)
            n == Cardinality(work)
        IN /\ componentsInCurrentCommit' = n
           /\ Len(commitLog') = n
           /\ {commitLog'[k].pos : k \in 1..Len(commitLog')} = work
           /\ \A k \in 1..Len(commitLog') : commitLog'[k].renderCost * n = CostDen
           /\ SumOfRenderCost(profiles') - SumOfRenderCost(profiles) = CostDen ]_vars

\* C2 witness: a commit of three rendering fibers completed, each charged a third.
CommitChargesWitness ==
  /\ lastOp = "commit" /\ ~lastThrew
  /\ Len(commitLog) = 3
  /\ \A k \in 1..3 : commitLog[k].renderCost * 3 = CostDen
  /\ Len(profiles) = 3

\* C3: all versions of one logical unit that were given an identity were given
\* the same identity, whichever of them rendered in whichever commits.
IdentityStableAcrossVersions ==
  \A f \in Fibers, g \in Fibers :
    (f[1] = g[1] /\ fiberToComponentId[f] # 0 /\ fiberToComponentId[g] # 0)
      => fiberToComponentId[f] = fiberToComponentId[g]

EmitOps == {"tick", "forceEmit"}

\* the live records (MOUNT / UPDATE) of a message
LiveRecords(msg) ==
  {k \in 1..Len(msg.profiles) : msg.profiles[k].renderPhase # "unmount"}

\* profile id x has a live record in one of the messages sent by this step
IncludedByStep(x) ==
  \E m \in (Len(sent) + 1)..Len(sent') :
    \E k \in LiveRecords(sent'[m]) : sent'[m].profiles[k].id = x

LastMessage == sent[Len(sent)]

\* C4: immediately after an emission (tick or forceEmit) that includes a live
\* profile, its causeDeltaBreakdown sums to 0, its propChangeDelta is empty and
\* its lastEmittedRenderCount equals totalRenders.
EmissionResetsDeltas ==
  [][ lastOp' \in EmitOps =>
        \A i \in 1..Len(profiles') :
          IncludedByStep(profiles'[i].id) =>
            /\ BreakdownSum(profiles'[i].causeDeltaBreakdown) = 0
            /\ profiles'[i].propChangeDelta = <<>>
            /\ profiles'[i].lastEmittedRenderCount = profiles'[i].totalRenders ]_vars

\* C4 witness: an emission at this instant reported a profile that had buffered
\* property changes; its deltas are now empty.
EmissionResetsWitness ==
  /\ lastOp \in EmitOps /\ sent # <<>>
  /\ LastMessage.timestamp = now
  /\ \E i \in LiveIndexes :
       /\ profiles[i].propChangeStats.changeCount # <<>>
       /\ profiles[i].propChangeDelta = <<>>
       /\ profiles[i].lastEmitTime = now
       /\ \E k \in LiveRecords(LastMessage) :
            /\ LastMessage.profiles[k].id = profiles[i].id
            /\ LastMessage.profiles[k].causeDeltaBreakdown["props_change"] > 0

\* C5: on every emission a live profile is included iff
\* totalRenders - lastEmittedRenderCount >= 1 or it is flagged suspicious, and a
\* skipped profile is left completely unchanged.
EmissionIncludesIffDeltaOrSuspicious ==
  [][ lastOp' \in EmitOps =>
        /\ Len(profiles') = Len(profiles)
        /\ \A i \in LiveIndexes :
             /\ IncludedByStep(profiles[i].id) <=>
                  \/ profiles[i].totalRenders - profiles[i].lastEmittedRenderCount >= 1
                  \/ profiles[i].isSuspicious
             /\ ~IncludedByStep(profiles[i].id) => profiles'[i] = profiles[i] ]_vars

\* C5 witness: the emission just made sent a message for another profile and
\* skipped a live profile that had been reported before.
EmissionSkipWitness ==
  /\ lastOp \in EmitOps
  /\ Len(sent) >= 2
  /\ LastMessage.timestamp = now
  /\ \E i \in LiveIndexes :
       /\ profiles[i].lastEmittedRenderCount > 0
       /\ ~profiles[i].isSuspicious
       /\ \A k \in 1..Len(LastMessage.profiles) :
            LastMessage.profiles[k].id # profiles[i].id

\* C6: each tick or forceEmit hands the transport at most one message: exactly
\* one RENDER_SNAPSHOT message when a live profile is included or a removal is
\* pending, none when the batch is empty; no other operation sends.
AtMostOneMessagePerEmission ==
  [][ IF lastOp' \in EmitOps
      THEN IF \/ pendingUnmounts # <<>>
              \/ \E i \in LiveIndexes :
                   \/ profiles[i].totalRenders - profiles[i].lastEmittedRenderCount >= 1
                   \/ profiles[i].isSuspicious
           THEN /\ Len(sent') = Len(sent) + 1
                /\ SubSeq(sent', 1, Len(sent)) = sent
                /\ sent'[Len(sent')].phase = "RENDER_SNAPSHOT"
                /\ sent'[Len(sent')].profiles # <<>>
           ELSE sent' = sent
      ELSE sent' = sent ]_vars

\* C6 witness: a tick has just run with an empty batch and sent nothing, after an
\* earlier emission that sent one message carrying a pending removal.
EmptyTickWitness ==
  /\ lastOp = "tick"
  /\ Len(sent) = 1
  /\ LastMessage.timestamp < now
  /\ \E k \in 1..Len(LastMessage.profiles) :
       LastMessage.profiles[k].renderPhase = "unmount"

\* <<m, k>>: record k of message m, for every record sent so far
SentRecords ==
  UNION {{<<m, k>> : k \in 1..Len(sent[m].profiles)} : m \in 1..Len(sent)}

RecordAt(mk) == sent[mk[1]].profiles[mk[2]]

Earlier(a, b) == a[1] < b[1] \/ (a[1] = b[1] /\ a[2] < b[2])

SentLive == {mk \in SentRecords : RecordAt(mk).renderPhase # "unmount"}

\* C7: for every profile, the first record emitted for it while live has phase
\* MOUNT and every later record emitted for it while live has phase UPDATE.
MountFirstThenUpdate ==
  \A b \in SentLive :
    LET first == ~\E a \in SentLive : Earlier(a, b) /\ RecordAt(a).id = RecordAt(b).id
    IN RecordAt(b).renderPhase = IF first THEN "mount" ELSE "update"

\* C7 witness: a profile has been reported live in two messages, as MOUNT in the
\* first and as UPDATE in the second.
MountThenUpdateWitness ==
  \E a \in SentLive, b \in SentLive :
    /\ a[1] < b[1]
    /\ RecordAt(a).id = RecordAt(b).id
    /\ RecordAt(a).renderPhase = "mount"
    /\ RecordAt(b).renderPhase = "update"

SentUnmounts == {mk \in SentRecords : RecordAt(mk).renderPhase = "unmount"}

\* the fiber of the notification is tracked: it has an identity with a live profile
TrackedFiber(fiber) ==
  /\ fiberToComponentId[fiber] # 0
  /\ ProfileIndex(profiles, fiberToComponentId[fiber]) # 0

\* C8: an unmount notification for a tracked fiber takes its profile out of the
\* live set at once and queues it with unmountedAt set; the next emission carries
\* exactly one UNMOUNT record for each queued profile; no later message carries a
\* record for that profile and it never gets a second UNMOUNT record; a repeated
\* notification changes nothing.
UnmountReportedExactlyOnce ==
  [][ /\ lastOp' = "unmount" =>
           IF TrackedFiber(lastArg'.fiber)
           THEN LET i == ProfileIndex(profiles, fiberToComponentId[lastArg'.fiber])
                IN /\ \A j \in 1..Len(profiles') : profiles'[j].id # profiles[i].id
                   /\ Len(profiles') = Len(profiles) - 1
                   /\ pendingUnmounts' =
                        Append(pendingUnmounts, [profiles[i] EXCEPT !.unmountedAt = now])
           ELSE profiles' = profiles /\ pendingUnmounts' = pendingUnmounts
      /\ lastOp' \in EmitOps =>
           /\ pendingUnmounts' = <<>>
           /\ \A q \in 1..Len(pendingUnmounts) :
                /\ Len(sent') = Len(sent) + 1
                /\ Cardinality({k \in 1..Len(sent'[Len(sent')].profiles) :
                      sent'[Len(sent')].profiles[k].id = pendingUnmounts[q].id}) = 1
                /\ \E k \in 1..Len(sent'[Len(sent')].profiles) :
                     /\ sent'[Len(sent')].profiles[k].id = pendingUnmounts[q].id
                     /\ sent'[Len(sent')].profiles[k].renderPhase = "unmount"
                     /\ sent'[Len(sent')].profiles[k].unmountedAt =
                          pendingUnmounts[q].unmountedAt
                     /\ sent'[Len(sent')].profiles[k].unmountedAt >= 0
      /\ \A i \in 1..Len(profiles'), q \in 1..Len(pendingUnmounts') :
           profiles'[i].id # pendingUnmounts'[q].id
      /\ \A q \in 1..Len(pendingUnmounts'), r \in 1..Len(pendingUnmounts') :
           pendingUnmounts'[q].id = pendingUnmounts'[r].id => q = r
      /\ \A u \in SentUnmounts' :
           /\ \A i \in 1..Len(profiles') : profiles'[i].id # RecordAt(u)'.id
           /\ \A q \in 1..Len(pendingUnmounts') :
                pendingUnmounts'[q].id # RecordAt(u)'.id
           /\ \A b \in SentRecords' :
                (b # u /\ RecordAt(b)'.id = RecordAt(u)'.id) => Earlier(b, u) ]_vars

\* C8 witness: a profile was reported MOUNT, its fiber was unmounted, the next
\* message carried its UNMOUNT record, and a later message was sent without it.
UnmountReportedWitness ==
  \E u \in SentUnmounts :
    /\ u[1] < Len(sent)
    /\ RecordAt(u).unmountedAt >= 0
    /\ \A k \in 1..Len(LastMessage.profiles) : LastMessage.profiles[k].id # RecordAt(u).id

\* the cascade of the specification, on the inputs of inferRenderCause
CascadeCause(node, parentComponentId, parentRendered) ==
  CASE node.ver = 0 ->
         [type |-> "unknown", confidence |-> "high", triggerId |-> 0, diff |-> FALSE]
    [] node.ver > 0 /\ parentComponentId # 0 /\ parentRendered
         /\ node.props.ref # node.prevProps.ref ->
         [type |-> "props_change", confidence |-> "medium",
          triggerId |-> parentComponentId, diff |-> TRUE]
    [] node.ver > 0 /\ parentComponentId # 0 /\ parentRendered
         /\ node.props.ref = node.prevProps.ref ->
         [type |-> "parent_render", confidence |-> "medium",
          triggerId |-> parentComponentId, diff |-> FALSE]
    [] node.ver > 0 /\ ~(parentComponentId # 0 /\ parentRendered)
         /\ node.stateChanged ->
         [type |-> "state_change", confidence |-> "medium", triggerId |-> 0, diff |-> FALSE]
    [] node.ver > 0 /\ ~(parentComponentId # 0 /\ parentRendered)
         /\ ~node.stateChanged /\ node.props.ref # node.prevProps.ref ->
         [type |-> "context_change", confidence |-> "low", triggerId |-> 0, diff |-> FALSE]
    [] OTHER ->
         [type |-> "unknown", confidence |-> "unknown", triggerId |-> 0, diff |-> FALSE]

\* the positions of the sibling list that starts at pos
RECURSIVE SiblingList(_, _)
SiblingList(tree, pos) ==
  IF pos = 0 THEN {} ELSE {pos} \cup SiblingList(tree, tree.sibling[pos])

\* fiber.return: the position whose child list holds pos (0 for the root list)
ReturnOf(tree, pos) ==
  IF \E q \in 1..tree.n : pos \in SiblingList(tree, tree.child[q])
  THEN CHOOSE q \in 1..tree.n : pos \in SiblingList(tree, tree.child[q])
  ELSE 0

\* the nearest proper ancestor that is trackable and performed work (0: none)
RECURSIVE NearestWorkAncestor(_, _)
NearestWorkAncestor(tree, pos) ==
  LET q == ReturnOf(tree, pos)
  IN IF q = 0 THEN 0
     ELSE IF q \in TrackableWork(tree) THEN q
     ELSE NearestWorkAncestor(tree, q)

LogIndexes == 1..Len(commitLog)

\* the identity pass 2 gave the fiber at pos in this commit (0: none)
IdentityAt(pos) ==
  IF \E k \in LogIndexes : commitLog[k].pos = pos
  THEN commitLog[CHOOSE k \in LogIndexes : commitLog[k].pos = pos].componentId
  ELSE 0

\* C9: for every accumulated fiber the cause inferred is the one the priority
\* cascade gives on the same inputs (type, confidence, trigger and whether a
\* property diff is attached); a state change is never reported when the parent
\* identity handed in rendered in this commit, nor when the fiber's own nearest
\* trackable ancestor rendered in this commit.
CauseIsPriorityCascade ==
  \A k \in LogIndexes :
    LET e == commitLog[k]
        node == lastArg.tree.node[e.pos]
        want == CascadeCause(node, e.parentComponentId, e.parentRendered)
    IN /\ e.cause.type = want.type
       /\ e.cause.confidence = want.confidence
       /\ e.cause.triggerId = want.triggerId
       /\ e.cause.hasPropChanges = want.diff
       /\ e.cause.propChanges =
            IF want.diff THEN DiffProps(node.prevProps, node.props) ELSE <<>>
       /\ (e.parentComponentId # 0 /\ e.parentRendered)
            => e.cause.type # "state_change"
       /\ NearestWorkAncestor(lastArg.tree, e.pos) # 0
            => e.cause.type # "state_change"

\* C9 witness: one commit in which a root fiber with a changed state is reported
\* STATE_CHANGE and a fiber below it with a changed state and changed properties
\* is reported PROPS_CHANGE, triggered by its parent, with the diff attached.
CauseCascadeWitness ==
  \E a \in LogIndexes, b \in LogIndexes :
    /\ commitLog[a].cause.type = "state_change"
    /\ lastArg.tree.node[commitLog[b].pos].stateChanged
    /\ commitLog[b].cause.type = "props_change"
    /\ commitLog[b].cause.triggerId = commitLog[a].componentId
    /\ commitLog[b].cause.propChanges # <<>>

\* C10: every accumulated fiber is visited with the identity of its nearest
\* trackable ancestor that performed work in this commit as parent context
\* (none if there is no such ancestor), so never with a sibling's identity.
ParentContextIsNearestAncestor ==
  \A k \in LogIndexes :
    commitLog[k].parentComponentId =
      IdentityAt(NearestWorkAncestor(lastArg.tree, commitLog[k].pos))

\* the profiles the last commit accumulated into
AccumulatedIndexes ==
  {i \in LiveIndexes : \E k \in LogIndexes : commitLog[k].componentId = profiles[i].componentId}

WindowAge(p) == now - p.velocityWindowStart

\* velocity > 5 per second, with velocity = count / max(age, 100 ms) * 1000 and
\* 0 once the window is older than 2000 ms
IsHot(p) ==
  /\ WindowAge(p) <= 2000
  /\ p.velocityWindowCount * 1000 > 5 * (IF WindowAge(p) > 100 THEN WindowAge(p) ELSE 100)

\* C11: after every accumulation into a profile the flag follows the two
\* thresholds in order: velocity above 5 per second gives a velocity reason,
\* otherwise more than 50 renders in total gives a total-count reason,
\* otherwise the flag and the reason are cleared; so a unit with 20 renders
\* in its window is flagged for velocity.
SuspicionFollowsThresholds ==
  lastOp = "commit" =>
    \A i \in AccumulatedIndexes :
      LET p == profiles[i]
      IN /\ IsHot(p) => p.isSuspicious /\ p.suspiciousReason.kind = "velocity"
         /\ (~IsHot(p) /\ p.totalRenders > 50) =>
               p.isSuspicious /\ p.suspiciousReason.kind = "total"
                 /\ p.suspiciousReason.value = p.totalRenders
         /\ (~IsHot(p) /\ p.totalRenders <= 50) =>
               ~p.isSuspicious /\ p.suspiciousReason = NoReason
         /\ p.velocityWindowCount >= 20 =>
               p.isSuspicious /\ p.suspiciousReason.kind = "velocity"

\* the twentieth render of a window that began earlier
TwentyInWindowWitness ==
  /\ lastOp = "commit"
  /\ \E i \in AccumulatedIndexes :
       /\ profiles[i].velocityWindowCount = 20
       /\ WindowAge(profiles[i]) > 0
       /\ profiles[i].suspiciousReason.kind = "velocity"

\* the profile of componentId id in the profile list ps (id must be present)
ProfileOf(ps, id) == ps[ProfileIndex(ps, id)]

\* C12: when a unit flagged for velocity, with no more than 50 renders, is
\* accumulated into again only after its 2000 ms window has elapsed, that
\* accumulation clears the flag and the reason.
FlagClearsAfterQuietWindow ==
  [][ \A i \in LiveIndexes :
        ( /\ lastOp' = "commit"
          /\ profiles[i].isSuspicious
          /\ profiles[i].suspiciousReason.kind = "velocity"
          /\ profiles[i].totalRenders < 50
          /\ now - profiles[i].velocityWindowStart > 2000
          /\ ProfileIndex(profiles', profiles[i].componentId) # 0
          /\ ProfileOf(profiles', profiles[i].componentId).totalRenders
               = profiles[i].totalRenders + 1 )
        => /\ ~ProfileOf(profiles', profiles[i].componentId).isSuspicious
           /\ ProfileOf(profiles', profiles[i].componentId).suspiciousReason = NoReason
    ]_vars

\* C13: a unit that rendered exactly once, and whose mount has been reported,
\* gets no record in a later tick (and the tick sends nothing when no other
\* profile has anything to report).
IdleUnitGeneratesNoTraffic ==
  [][ lastOp' = "tick" =>
        /\ \A i \in LiveIndexes :
             (profiles[i].totalRenders = 1 /\ profiles[i].lastEmittedRenderCount = 1)
               => ~IncludedByStep(profiles[i].id)
        /\ ( /\ pendingUnmounts = <<>>
             /\ \A i \in LiveIndexes :
                  profiles[i].totalRenders = profiles[i].lastEmittedRenderCount )
             => sent' = sent
    ]_vars

\* the identities accumulated by this commit before its k-th accumulation
LoggedBefore(k) == {commitLog[j].componentId : j \in 1..(k - 1)}

\* C14: no exception of a traversal leaves the commit handler, and after every
\* commit the commit context is what this commit alone produced: the rendered
\* set holds exactly the identities accumulated in this commit, the unit count
\* is the number of trackable fibers of this tree that performed work, every
\* cost charged is one over that count, and every cause is the one inferred
\* from the identities accumulated earlier in this same commit.
CommitContextStartsFresh ==
  /\ "raised" \notin {lastCalls[k] : k \in 1..Len(lastCalls)}
  /\ lastOp = "commit" =>
       /\ currentCommitComponents = {commitLog[k].componentId : k \in LogIndexes}
       /\ \A k \in LogIndexes :
            /\ commitLog[k].renderCost * Cardinality(TrackableWork(lastArg.tree)) = CostDen
            /\ commitLog[k].cause =
                 InferRenderCause(lastArg.tree.node[commitLog[k].pos],
                                  commitLog[k].parentComponentId, LoggedBefore(k))
       /\ ~lastThrew =>
            componentsInCurrentCommit = Cardinality(TrackableWork(lastArg.tree))

\* C14 witness: a commit completed after an earlier commit had faulted in pass 2
\* (a fiber was given an identity but no profile, and nothing was unmounted or
\* emitted in between), so the faulting commit had left a non-empty context.
FreshAfterFaultWitness ==
  /\ lastOp = "commit" /\ ~lastThrew
  /\ commitLog # <<>>
  /\ sent = <<>> /\ pendingUnmounts = <<>>
  /\ fiberToComponentId[<<2, 1>>] # 0
  /\ ProfileIndex(profiles, fiberToComponentId[<<2, 1>>]) = 0

NotifyOps == {"commit", "unmount"}

\* C15: on a hook the host installed, every commit and unmount notification
\* calls the host's original callback exactly once: first, and followed by the
\* profiler's handler, while the profiler is set up; alone before setup and
\* after cleanup.
OriginalCalledOnceAndFirst ==
  (hook.madeBy = "host" /\ lastOp \in NotifyOps) =>
    lastCalls = IF isSetup THEN <<"original", "profiler">> ELSE <<"original">>

\* C15 witness: a notification after cleanup reached the original through the
\* callback cleanup put back.
OriginalAfterCleanupWitness ==
  /\ hook.madeBy = "host" /\ ~isSetup
  /\ hook.onCommitFiberRoot.kind = "bound"
  /\ lastOp = "commit"
  /\ lastCalls = <<"original">>

\* cleanup has returned and setup has not been called since: the profiler is
\* not set up and the hook is neither absent nor as the host left it
AfterCleanup == ~isSetup /\ hook # NoHook /\ hook # HostHook

\* C16: between the return of cleanup and the next setup no commit or unmount
\* notification creates or changes a profile and no timer tick sends a message,
\* whether setup had wrapped a hook of the host or created the hook.
QuiescentAfterCleanup ==
  [][ (AfterCleanup /\ lastOp' \in NotifyOps \cup {"tick"}) =>
        (profiles' = profiles /\ sent' = sent) ]_vars

\* the records of the messages sent by this step, as <<message, record>> pairs
StepRecords ==
  UNION {{<<m, k>> : k \in 1..Len(sent'[m].profiles)} : m \in (Len(sent) + 1)..Len(sent')}

\* C17: cleanup of a profiler that is set up emits once before it clears: the
\* message it sends holds a live record for every profile with unreported
\* renders (with its total and its delta) and an unmount record for every
\* pending removal, and when it returns the profiles, the pending removals and
\* the commit context (the rendered set and the unit count) are empty.
CleanupEmitsBeforeClearing ==
  [][ (lastOp' = "cleanup" /\ isSetup) =>
        /\ Len(sent') <= Len(sent) + 1
        /\ SubSeq(sent', 1, Len(sent)) = sent
        /\ \A i \in LiveIndexes :
             profiles[i].totalRenders > profiles[i].lastEmittedRenderCount =>
               \E r \in StepRecords :
                 LET rec == sent'[r[1]].profiles[r[2]]
                 IN /\ rec.renderPhase # "unmount"
                    /\ rec.id = profiles[i].id
                    /\ rec.totalRenders = profiles[i].totalRenders
                    /\ rec.rendersDelta =
                         profiles[i].totalRenders - profiles[i].lastEmittedRenderCount
        /\ \A j \in 1..Len(pendingUnmounts) :
             \E r \in StepRecords :
               LET rec == sent'[r[1]].profiles[r[2]]
               IN /\ rec.renderPhase = "unmount"
                  /\ rec.id = pendingUnmounts[j].id
                  /\ rec.totalRenders = pendingUnmounts[j].totalRenders
        /\ profiles' = <<>>
        /\ pendingUnmounts' = <<>>
        /\ currentCommitComponents' = {}
        /\ componentsInCurrentCommit' = 0
        /\ ~isSetup' /\ ~timerOn'
    ]_vars

\* C18: cleanup on a profiler that is not set up changes nothing: no message,
\* no profiler state, no hook callback; so a second cleanup in a row leaves
\* the state of the first.
CleanupWhenNotSetUpIsNoOp ==
  [][ (lastOp' = "cleanup" /\ ~isSetup) =>
        UNCHANGED <<isSetup, timerOn, nextTick, profilerVars, sent, hostVars, now>> ]_vars

\* C18 witness: a cleanup was called on a cleaned-up profiler that still held
\* profiles, and kept them.
SecondCleanupWitness ==
  /\ lastOp = "cleanup" /\ ~isSetup
  /\ hook.exists
  /\ profiles # <<>>

\* C19: setup on a profiler that is set up changes nothing: the timer and its
\* next firing, the hook's callbacks, the saved originals and the profiles
\* are as before.
SetupWhenActiveIsNoOp ==
  [][ (lastOp' = "setup" /\ isSetup) =>
        UNCHANGED <<isSetup, timerOn, nextTick, profilerVars, sent, hostVars, now>> ]_vars

\* C19 witness: setup was called on a profiler that had wrapped the host's hook
\* and held profiles; the hook is wrapped once.
SecondSetupWitness ==
  /\ lastOp = "setup" /\ isSetup
  /\ hook.madeBy = "host"
  /\ hook.onCommitFiberRoot = Wrapper
  /\ originalOnCommitFiberRoot = Bind(HostCallback)
  /\ profiles # <<>>

\* how many times the notification of this step accumulated into identity id
AccumulationsInto(id) == Cardinality({k \in 1..Len(commitLog') : commitLog'[k].componentId = id})

\* C20: handling CLEAR_RENDERS leaves no live profile and no pending removal
\* and does not touch the hook, the timer or the set-up flag; the commit that
\* follows accumulates every unit it renders into a new profile, created at
\* that commit, that counts the accumulations of that commit only (1 after the
\* first).
ClearRendersStartsAfresh ==
  [][ /\ lastOp' = "clearRenders" =>
           /\ profiles' = <<>> /\ pendingUnmounts' = <<>>
           /\ UNCHANGED <<hostVars, timerOn, nextTick, isSetup>>
      /\ (lastOp = "clearRenders" /\ lastOp' = "commit") =>
           \A i \in 1..Len(profiles') :
             /\ profiles'[i].id > renderIdCounter
             /\ profiles'[i].mountedAt = now
             /\ profiles'[i].lastEmittedRenderCount = 0
             /\ profiles'[i].totalRenders = AccumulationsInto(profiles'[i].componentId)
             /\ BreakdownSum(profiles'[i].causeBreakdown) = profiles'[i].totalRenders
    ]_vars

\* what reaches the transport when each message goes through beforeSend first
PassedThrough(kind, messages) ==
  SelectSeq([i \in 1..Len(messages) |-> BeforeSend(kind, messages[i])],
            LAMBDA m : m # Null)

\* C21: when config.beforeSend is set, every RENDER_SNAPSHOT message of a tick
\* goes through it before dispatch: a null result hands nothing to the
\* transport, and otherwise the message beforeSend returned is what is sent.
SnapshotPassesThroughBeforeSend ==
  [][lastOp' = "tick" =>
       sent' = sent \o PassedThrough(config.beforeSend,
                 EmitSnapshot(profiles, pendingUnmounts, now).messages)]_vars

\* C24: a render option supplied at setup governs the profiler in place of
\* the default: the timer set up by setup, and every tick after it, is one
\* supplied snapshotIntervalMs away.
SuppliedIntervalGovernsTick ==
  [][((lastOp' = "setup" /\ ~isSetup) \/ lastOp' = "tick") =>
       nextTick' = now
         + (IF "snapshotIntervalMs" \in DOMAIN config'.options
            THEN config'.options.snapshotIntervalMs
            ELSE SNAPSHOT_INTERVAL_MS)]_vars

BridgeOps == {"startRequest", "endRequest", "failRequest"}

XhrOps == {"xhrSend", "xhrResponse", "xhrError"}

\* the phase of the event an operation produces
PhaseOf(op) ==
  CASE op \in {"startRequest", "xhrSend"} -> "REQUEST"
    [] op \in {"endRequest", "xhrResponse"} -> "RESPONSE"
    [] op \in {"failRequest", "xhrError"} -> "ERROR"

\* cfg's beforeSend returns null for the events of this phase
ReturnsNullFor(cfg, phase) ==
  HasBeforeSend(cfg) /\ BeforeSend(cfg.beforeSend, NetworkEvent(phase, 0, "fetch")) = Null

\* C22: an event for which beforeSend returns null is never sent, whichever
\* phase it has (REQUEST, RESPONSE, ERROR) and whether the request bridge or
\* the XHR interceptor produced it: an operation whose event gets null from
\* beforeSend hands nothing to the transport.
NullResultIsNeverSent ==
  [][/\ (lastOp' \in BridgeOps /\ ReturnsNullFor(bridgeConfig, PhaseOf(lastOp')))
          => sent' = sent
     /\ (lastOp' \in XhrOps /\ ReturnsNullFor(xhrConfig, PhaseOf(lastOp')))
          => sent' = sent]_vars

\* the RESPONSE and ERROR events sent for a request id
TerminalEvents(log, id) ==
  {i \in 1..Len(log) : log[i].id = id /\ log[i].phase \in {"RESPONSE", "ERROR"}}

\* C27: for each request id that startRequest has returned at most one
\* terminal event (RESPONSE or ERROR) is ever sent, and endRequest /
\* failRequest for an id that is not pending (unknown, completed, or cleared
\* by cleanup) sends nothing and changes no state of the bridge.
AtMostOneTerminalEvent ==
  [][/\ \A id \in generateRequestId : Cardinality(TerminalEvents(sent', id)) <= 1
     /\ (lastOp' \in {"endRequest", "failRequest"} /\ lastRequestId' \notin pendingRequests)
          => UNCHANGED <<sent, pendingRequests, bridgeConfig>>]_vars

\* the one-level structural equality of two values of one kind: equal
\* primitives, arrays of equal length with identical elements, plain objects
\* with the same key-set and identical values, and any two functions
StructurallyEqual(a, b) ==
  CASE a.t = "function" /\ b.t = "function" -> TRUE
    [] a.kind = "array" /\ b.kind = "array" ->
         /\ Len(a.items) = Len(b.items)
         /\ \A i \in 1..Len(a.items) : StrictEq(a.items[i][2], b.items[i][2])
    [] a.kind = "plain" /\ b.kind = "plain" ->
         /\ {a.items[i][1] : i \in 1..Len(a.items)} = {b.items[i][1] : i \in 1..Len(b.items)}
         /\ \A i \in 1..Len(a.items) :
              StrictEq(a.items[i][2], Get(b.items, a.items[i][1]))
    [] OTHER -> StrictEq(a, b)

\* C23: for every key the diff reports as changed, referenceOnly is true
\* exactly when the one-level structural equality holds between the old and
\* the new value; a genuinely different value, an object with a different
\* key-set included, is reported with referenceOnly false.  Stated for old
\* and new values of the same type and kind.
ReferenceOnlyIffStructurallyEqual ==
  lastOp = "diffProps" =>
    \A i \in 1..Len(diffOut) :
      LET a == Get(diffIn[1].items, diffOut[i].key)
          b == Get(diffIn[2].items, diffOut[i].key)
      IN (a.t = b.t /\ a.kind = b.kind) =>
           diffOut[i].referenceOnly = StructurallyEqual(a, b)

\* the index in ps of the profile with render id rid (0: none)
IndexOfId(ps, rid) ==
  IF \E i \in 1..Len(ps) : ps[i].id = rid
  THEN CHOOSE i \in 1..Len(ps) : ps[i].id = rid
  ELSE 0

\* the cost the accumulations of this step charged to identity id
CostChargedTo(id) ==
  SumOver([k \in 1..Len(commitLog') |-> commitLog'[k].renderCost],
          {k \in 1..Len(commitLog') : commitLog'[k].componentId = id})

\* C25: while a profile is live its totalRenders and totalRenderCost never
\* decrease across any operation (commit, faulting commit, unmount of another
\* unit, tick, forceEmit); each accumulation adds exactly 1 to totalRenders
\* and a cost in (0, 1] to totalRenderCost, and nothing else changes them.
TotalsNeverDecrease ==
  [][/\ \A k \in 1..Len(commitLog') :
          commitLog'[k].renderCost > 0 /\ commitLog'[k].renderCost <= CostDen
     /\ \A j \in 1..Len(profiles') :
          LET q == profiles'[j]
              i == IndexOfId(profiles, q.id)
          IN /\ q.totalRenders
                  = (IF i = 0 THEN 0 ELSE profiles[i].totalRenders)
                      + AccumulationsInto(q.componentId)
             /\ q.totalRenderCost
                  = (IF i = 0 THEN 0 ELSE profiles[i].totalRenderCost)
                      + CostChargedTo(q.componentId)
             /\ i # 0 => /\ q.totalRenders >= profiles[i].totalRenders
                         /\ q.totalRenderCost >= profiles[i].totalRenderCost]_vars

\* C25 witness: a commit has just accumulated into a profile that was emitted
\* before, at a cost below 1, while another profile stayed as it was.
TotalsGrowAfterEmissionWitness ==
  /\ lastOp = "commit"
  /\ \E i, j \in LiveIndexes :
       /\ i # j
       /\ profiles[i].lastEmittedRenderCount >= 1
       /\ profiles[i].totalRenders > profiles[i].lastEmittedRenderCount
       /\ profiles[i].totalRenderCost < profiles[i].totalRenders * CostDen
       /\ \A k \in LogIndexes : commitLog[k].componentId # profiles[j].componentId

\* the totalRenders carried by the latest live record sent for the same
\* profile before record b (0: b is its first)
PreviouslyReported(b) ==
  LET before == {a \in SentLive : Earlier(a, b) /\ RecordAt(a).id = RecordAt(b).id}
  IN IF before = {} THEN 0
     ELSE RecordAt(CHOOSE a \in before : \A c \in before : ~Earlier(a, c)).totalRenders

\* C29: in every reachable state the causeDeltaBreakdown of every live profile
\* sums to totalRenders - lastEmittedRenderCount, and the rendersDelta of
\* every live record sent is the number of renders accumulated since the
\* previous record sent for that profile (since its creation for the first).
DeltaCountsUnreportedRenders ==
  /\ \A i \in LiveIndexes :
       BreakdownSum(profiles[i].causeDeltaBreakdown)
         = profiles[i].totalRenders - profiles[i].lastEmittedRenderCount
  /\ \A b \in SentLive :
       /\ RecordAt(b).rendersDelta = RecordAt(b).totalRenders - PreviouslyReported(b)
       /\ BreakdownSum(RecordAt(b).causeDeltaBreakdown) = RecordAt(b).rendersDelta

\* C29 witness: a profile was reported twice and the second record carries
\* only the renders made after the first.
SecondDeltaWitness ==
  \E a, b \in SentLive :
    /\ Earlier(a, b)
    /\ RecordAt(a).id = RecordAt(b).id
    /\ RecordAt(b).rendersDelta >= 1
    /\ RecordAt(b).totalRenders = RecordAt(a).totalRenders + RecordAt(b).rendersDelta

\* C30: for every profile that has a primary parent, the primary parent's
\* count in parentCounts is at least every other parent's count, and the
\* primary parent changes only in an accumulation that takes another parent's
\* count strictly above the primary's: a parent that reaches an equal count
\* does not displace it.
PrimaryParentLeads ==
  [][\A j \in 1..Len(profiles') :
       LET q == profiles'[j]
           i == IndexOfId(profiles, q.id)
       IN q.primaryParentId # 0 =>
            /\ \A k \in 1..Len(q.parentCounts) :
                 q.parentCounts[k][2] <= MapGet(q.parentCounts, q.primaryParentId)
            /\ (i # 0 /\ profiles[i].primaryParentId # 0
                  /\ q.primaryParentId # profiles[i].primaryParentId)
                 => MapGet(q.parentCounts, q.primaryParentId)
                      > MapGet(q.parentCounts, profiles[i].primaryParentId)]_vars

\* C30 witness: a second parent has overtaken the first one, after a state in
\* which both had the same count and the first was still primary.
ParentOvertakenWitness ==
  \E i \in LiveIndexes :
    /\ Len(profiles[i].parentCounts) = 2
    /\ profiles[i].parentCounts[1][2] = 1
    /\ profiles[i].parentCounts[2][2] = 2
    /\ profiles[i].primaryParentId = profiles[i].parentCounts[2][1]

\* the messages of a queue
QueueMessages(queue) == {queue[i] : i \in 1..Len(queue)}

\* the messages of one phase are in the order of their numbers
InNumberOrder(queue) ==
  \A phase \in {"EVENT", "CONNECT", "CONSOLE"} :
    LET OfPhase(message) == message.phase = phase
        sub == SelectSeq(queue, OfPhase)
    IN \A i \in 1..(Len(sub) - 1) : sub[i].n < sub[i + 1].n

\* after is the newest messages of before, in their order, followed by
\* arrived messages that before did not hold
KeepsArrivalOrder(before, after, arrived) ==
  LET kept == Len(after) - arrived
  IN /\ kept <= Len(before)
     /\ SubSeq(after, 1, kept) = SubSeq(before, Len(before) - kept + 1, Len(before))
     /\ \A i \in (kept + 1)..Len(after) : after[i] \notin QueueMessages(before)

\* C26: after any sequence of sendMessage calls and connection changes
\* (closed, open, failing sends) the message queue holds at most maxQueueSize
\* messages; a message arriving at a full queue takes the place of the oldest
\* one and is appended, and the queue keeps its messages in arrival order: the
\* messages a step keeps are the newest of the old queue in their old order,
\* ahead of those that arrived in the step, and the messages of one source
\* are in the order of their numbers.  With the console interceptor set up
\* the warning sendMessage logs at a full queue arrives as a CONSOLE message
\* first, so the two oldest messages go, one for each arrival.
QueueStaysBounded ==
  [][/\ Len(messageQueue') <= maxQueueSize
     /\ \E arrived \in 0..Len(messageQueue') :
          KeepsArrivalOrder(messageQueue, messageQueue', arrived)
     /\ InNumberOrder(messageQueue')
     /\ (lastOp' = "send" /\ ws # "open" /\ Len(messageQueue) = maxQueueSize) =>
          messageQueue' =
            IF consoleIsSetup
            THEN Append(Append(Tail(Tail(messageQueue)), ConsoleMessage(counter, "warn")),
                        EventMessage(nOps'))
            ELSE Append(Tail(messageQueue), EventMessage(nOps'))]_vars

\* C26 witness: a message has just arrived at a full queue of a client whose
\* socket is not open and whose console interceptor is set up: the two
\* oldest messages are gone, the warning and the message are the newest.
OldestDroppedWitness ==
  /\ lastOp = "send"
  /\ ws # "open"
  /\ consoleIsSetup
  /\ Len(messageQueue) = maxQueueSize
  /\ messageQueue[1] = EventMessage(3)
  /\ messageQueue[maxQueueSize - 1] = ConsoleMessage(0, "warn")
  /\ messageQueue[maxQueueSize] = EventMessage(maxQueueSize + 1)

\* C28: handle never throws, whatever the command type; it sends exactly one
\* ACK {commandId = command.id, type = command.type, success = true} when the
\* command carries an id and nothing when it does not; a command of unknown
\* type calls no interceptor and changes nothing, and is acknowledged all the
\* same when it has an id.
CommandsAcknowledged ==
  [][lastOp' = "command" =>
       LET command == lastArg'.command
       IN /\ ~lastThrew'
          /\ sent' = IF command.id # 0
                     THEN Append(sent, [phase |-> "ACK", commandId |-> command.id,
                                        type |-> command.type, success |-> TRUE])
                     ELSE sent
          /\ command.type # "CLEAR_RENDERS" =>
               /\ lastCalls' = <<>>
               /\ UNCHANGED <<isSetup, timerOn, nextTick, profilerVars, hostVars>>
          /\ command.type = "CLEAR_RENDERS" => lastCalls' = <<"resetProfiles">>]_vars

\* C31: an emission (tick or forceEmit) leaves isSuspicious and
\* suspiciousReason of every profile as they were and includes every flagged
\* profile; and no step that leaves a live profile's totalRenders as it was
\* changes its flag or reason: the flag stays until the next render or the
\* unmount.
EmissionKeepsFlags ==
  [][ /\ lastOp' \in EmitOps =>
           /\ Len(profiles') = Len(profiles)
           /\ \A i \in LiveIndexes :
                /\ profiles'[i].componentId = profiles[i].componentId
                /\ profiles'[i].isSuspicious = profiles[i].isSuspicious
                /\ profiles'[i].suspiciousReason = profiles[i].suspiciousReason
                /\ profiles[i].isSuspicious => IncludedByStep(profiles[i].id)
      /\ \A i \in LiveIndexes :
           ( /\ ProfileIndex(profiles', profiles[i].componentId) # 0
             /\ ProfileOf(profiles', profiles[i].componentId).totalRenders
                  = profiles[i].totalRenders )
           => /\ ProfileOf(profiles', profiles[i].componentId).isSuspicious
                   = profiles[i].isSuspicious
              /\ ProfileOf(profiles', profiles[i].componentId).suspiciousReason
                   = profiles[i].suspiciousReason ]_vars

\* C31 witness: the emission just made reported a flagged profile that had
\* nothing new to report (rendersDelta 0), and the profile is still flagged
\* for the same reason.
FlagOutlivesEmissionWitness ==
  /\ lastOp \in EmitOps
  /\ Len(sent) >= 2
  /\ LastMessage.timestamp = now
  /\ \E i \in LiveIndexes :
       /\ profiles[i].isSuspicious
       /\ profiles[i].suspiciousReason.kind = "velocity"
       /\ \E k \in LiveRecords(LastMessage) :
            /\ LastMessage.profiles[k].id = profiles[i].id
            /\ LastMessage.profiles[k].rendersDelta = 0
            /\ LastMessage.profiles[k].isSuspicious

\* the keys a map of <<key, count>> pairs holds
KeySet(m) == {m[i][1] : i \in 1..Len(m)}

\* the property changes the commit of this step handed to accumulatePropChanges
\* for identity id
ChangesInto(id) ==
  {c \in UNION {{commitLog'[k].cause.propChanges[n] :
                   n \in 1..Len(commitLog'[k].cause.propChanges)} :
                 k \in {k \in 1..Len(commitLog') :
                          /\ commitLog'[k].componentId = id
                          /\ commitLog'[k].cause.type = "props_change"}} : TRUE}

\* C32: every profile tracks at most 20 distinct property keys, buffers at most
\* 10 property-change records since the last emission, and for every tracked
\* key referenceOnlyCount <= changeCount; once 20 keys are tracked a change to
\* a new key is not tracked, while every change to a tracked key is counted.
PropStatsStayCapped ==
  [][ /\ \A j \in 1..Len(profiles') :
           LET stats == profiles'[j].propChangeStats
           IN /\ Len(stats.changeCount) <= 20
              /\ Cardinality(KeySet(stats.changeCount)) = Len(stats.changeCount)
              /\ Len(profiles'[j].propChangeDelta) <= 10
              /\ KeySet(stats.referenceOnlyCount) \subseteq KeySet(stats.changeCount)
              /\ \A k \in KeySet(stats.changeCount) :
                   MapGet(stats.referenceOnlyCount, k) <= MapGet(stats.changeCount, k)
      /\ lastOp' = "commit" =>
           \A i \in LiveIndexes :
             LET old == profiles[i].propChangeStats.changeCount
                 new == profiles'[i].propChangeStats.changeCount
                 changed == {c.key : c \in ChangesInto(profiles[i].componentId)}
             IN /\ profiles'[i].componentId = profiles[i].componentId
                /\ Len(old) >= 20 => KeySet(new) = KeySet(old)
                /\ \A k \in KeySet(old) :
                     MapGet(new, k) = MapGet(old, k) + (IF k \in changed THEN 1 ELSE 0)
    ]_vars

\* C32 witness: a profile with 20 tracked keys and a full buffer has just
\* rendered with a change to a tracked key, now counted twice and once by
\* reference only, and a change to a key that is still not tracked.
KeyCapReachedWitness ==
  /\ lastOp = "commit"
  /\ \E i \in LiveIndexes, k \in 1..Len(commitLog) :
       LET stats == profiles[i].propChangeStats
           changes == commitLog[k].cause.propChanges
       IN /\ commitLog[k].componentId = profiles[i].componentId
          /\ Len(stats.changeCount) = 20
          /\ Len(profiles[i].propChangeDelta) = 10
          /\ \E a \in 1..Len(changes), b \in 1..Len(changes) :
               /\ MapGet(stats.changeCount, changes[a].key) = 2
               /\ MapGet(stats.referenceOnlyCount, changes[a].key) = 1
               /\ ~MapHas(stats.changeCount, changes[b].key)

\* how many times the commit of this step accumulated the fiber at position pos
AccumulationsAt(pos) ==
  Cardinality({k \in 1..Len(commitLog') : commitLog'[k].pos = pos})

\* C33: whatever setup and cleanup calls came before, while the profiler is
\* active each commit notification accumulates every trackable fiber that
\* performed work exactly once: its profile's totalRenders grows by exactly 1
\* and the commit adds exactly 1 to the cost of all profiles.
ActiveCommitAccumulatesOnce ==
  [][ (lastOp' = "commit" /\ isSetup /\ ~lastThrew') =>
        LET work == TrackableWork(lastArg'.tree)
        IN /\ \A pos \in work :
                LET cid == fiberToComponentId'[FiberOf(lastArg'.tree.node[pos])]
                    i == ProfileIndex(profiles, cid)
                IN /\ AccumulationsAt(pos) = 1
                   /\ ProfileIndex(profiles', cid) # 0
                   /\ ProfileOf(profiles', cid).totalRenders
                        = (IF i = 0 THEN 0 ELSE profiles[i].totalRenders) + 1
           /\ work # {} =>
                SumOfRenderCost(profiles') - SumOfRenderCost(profiles) = CostDen ]_vars

\* C34: over the whole life of the profiler, cleanup followed by setup
\* included, fibers of two different logical units (not linked by a chain of
\* previous versions) never hold the same identity.
DistinctUnitsDistinctIdentities ==
  \A f \in Fibers, g \in Fibers :
    (f[1] # g[1] /\ fiberToComponentId[f] # 0 /\ fiberToComponentId[g] # 0)
      => fiberToComponentId[f] # fiberToComponentId[g]

\* how many times call occurs in the calls of the last notification
TimesCalled(call) == Cardinality({k \in 1..Len(lastCalls') : lastCalls'[k] = call})

\* C35: two instances set up on the same pre-existing hook: every notification
\* reaches each instance exactly once while it is active and never after its
\* own cleanup, and once both are cleaned up, in either order, the hook's two
\* callbacks behave as the host's original callbacks again.
PairRestoresOriginals ==
  [][ /\ lastOp' \in NotifyOps =>
           \A i \in Instances :
             TimesCalled(ProfilerCall(i)) = (IF instances[i].isSetup THEN 1 ELSE 0)
      /\ (\A i \in Instances : ~instances'[i].isSetup) =>
           /\ RootCalls(sharedHook', instances') = <<"original">>
           /\ UnmountCalls(sharedHook', instances') = <<"original">> ]_vars

\* the records sent so far for the profile of record b
RecordsOf(b) == {a \in SentRecords : RecordAt(a).id = RecordAt(b).id}

\* C36: for every profile, the rendersDelta values of all the records ever
\* sent for it (MOUNT, UPDATE and UNMOUNT) add up to the totalRenders its last
\* record carries, whatever the interleaving of commits, unmounts and
\* emissions.
DeltasSumToLastTotal ==
  \A b \in SentRecords :
    (\A a \in RecordsOf(b) : a = b \/ Earlier(a, b)) =>
      SumOver([a \in RecordsOf(b) |-> RecordAt(a).rendersDelta], RecordsOf(b))
        = RecordAt(b).totalRenders

\* C37: an unmount notification that carries any version of a tracked unit,
\* the version that holds the identity or the previous version of it that
\* never rendered itself, takes the unit's profile out of the live set and
\* queues it for removal.
AnyVersionUnmountRetiresProfile ==
  [][ lastOp' = "unmount" =>
        \A g \in Fibers :
          ( /\ g = lastArg'.fiber \/ Alternate(g) = lastArg'.fiber
            /\ fiberToComponentId[g] # 0
            /\ ProfileIndex(profiles, fiberToComponentId[g]) # 0 )
          => /\ ProfileIndex(profiles', fiberToComponentId[g]) = 0
             /\ \E q \in 1..Len(pendingUnmounts') :
                  pendingUnmounts'[q].componentId = fiberToComponentId[g] ]_vars

\* C38: every RESPONSE or ERROR event the bridge has sent for a request id
\* comes after a REQUEST event sent for the same id, whatever beforeSend
\* returns.
TerminalFollowsRequest ==
  \A i \in 1..Len(sent) :
    sent[i].phase \in {"RESPONSE", "ERROR"} =>
      \E j \in 1..(i - 1) : sent[j].phase = "REQUEST" /\ sent[j].id = sent[i].id

\* a handler of this step set a reconnect timeout
ReconnectScheduled == scheduledSinceOpen' = scheduledSinceOpen + 1

\* C39 as stated: without an intervening successful open at most
\* maxReconnectAttempts reconnects are scheduled, the n-th of them after
\* min(1000 * 2^(n-1), 30000) ms
ScheduledBoundedBetweenOpens ==
  [][ReconnectScheduled =>
       /\ scheduledSinceOpen' <= maxReconnectAttempts
       /\ reconnectTimer' = Min(1000 * Pow2(scheduledSinceOpen' - 1), 30000)]_vars

\* C39: between two resets of the attempt counter, which a successful open
\* and disconnect() both are, at most maxReconnectAttempts reconnects are
\* scheduled, the n-th after min(1000 * 2^(n-1), 30000) ms; at most one
\* reconnect timer is pending; a successful open leaves the counter 0; and
\* after disconnect() there is no socket and no timer, from where no reconnect
\* fires and only connect() schedules one
ReconnectionBounded ==
  [][/\ Len(timers') <= 1
     /\ reconnectAttempts' \in 0..maxReconnectAttempts
     /\ ReconnectScheduled =>
          /\ reconnectAttempts' = reconnectAttempts + 1
          /\ reconnectTimer' = Min(1000 * Pow2(reconnectAttempts' - 1), 30000)
          /\ timers' = <<reconnectTimer'>>
     /\ reconnectAttempts' # reconnectAttempts => ReconnectScheduled \/ reconnectAttempts' = 0
     /\ reconnectAttempts' < reconnectAttempts => lastOp' \in {"open", "disconnect", "reset"}
     /\ lastOp' = "open" => reconnectAttempts' = 0
     /\ lastOp' \in {"disconnect", "reset"} =>
          ws' = "none" /\ timers' = <<>> /\ reconnectTimer' = 0 /\ reconnectAttempts' = 0
     /\ ws = "none" /\ timers = <<>> =>
          /\ lastOp' \notin {"close", "reconnect"}
          /\ ReconnectScheduled => lastOp' = "connect"]_vars

\* the fifth reconnect has fired, the socket it made has closed and nothing
\* more is scheduled
ReconnectsExhaustedWitness ==
  /\ lastOp = "close"
  /\ reconnectAttempts = maxReconnectAttempts
  /\ scheduledSinceOpen = maxReconnectAttempts
  /\ timers = <<>>
  /\ ws = "closed"

\* how often the last top-level console call invoked the original method of
\* its level with its own arguments
TimesForwarded ==
  Cardinality({i \in 1..Len(consoleOut.originals) :
                 consoleOut.originals[i] =
                   OriginalCall(consoleOut.call.level, consoleOut.args)})

\* C40: while the console interceptor is set up, a top-level console call
\* hands at most one CONSOLE message to sendMessage and invokes the original
\* method with its arguments exactly once; what beforeSend and sendMessage
\* log themselves reaches the original method and makes no message; and
\* isInternalLog is false after the call
ConsoleCallForwardedOnce ==
  lastOp = "console" =>
    /\ Len(consoleOut.messages) <= 1
    /\ \A i \in 1..Len(consoleOut.messages) :
         /\ consoleOut.messages[i].phase = "CONSOLE"
         /\ consoleOut.messages[i].args = consoleOut.args
    /\ TimesForwarded = 1
    /\ \A i \in 1..Len(consoleOut.originals) :
         consoleOut.originals[i].args \in {consoleOut.args, "nested", "internal"}
    /\ (consoleConfig /\ consoleOut.call.logsInBeforeSend) =>
         \E i \in 1..Len(consoleOut.originals) : consoleOut.originals[i].args = "nested"
    /\ ~isInternalLog

====
